---- MODULE Spec2Model ----
(***************************************************************************)
(* Verification model of the restaurant index layer: the ISAM file index,  *)
(* the extendible hash, the disk AVL, the disk B+Tree, the point R-Tree,   *)
(* the IndexManager that fans operations out to them and the QueryEngine   *)
(* planner that evaluates predicates over them.                            *)
(*                                                                         *)
(* Conventions.  File offsets are block numbers counted from 0, -1 is the  *)
(* nil offset, and block o of a file is element o+1 of the sequence that   *)
(* models the file.  Text is a sequence of character codes (see Chars).    *)
(* Python's None is NoneId for optional ids and a "found" flag for         *)
(* optional results.                                                       *)
(***************************************************************************)
EXTENDS Integers, Sequences, FiniteSets, TLC

VARIABLES isam, hash, avl, bpt, rtree, forced_index, hist, ninserts, table

vars == <<isam, hash, avl, bpt, rtree, forced_index, hist, ninserts, table>>

\* no table file of the StorageManager
NoTable == [exists |-> FALSE]

NoneId == 0 - 1
NIL == 0 - 1

Max(a, b) == IF a >= b THEN a ELSE b
Min(a, b) == IF a <= b THEN a ELSE b
SetMin(S) == CHOOSE x \in S : \A y \in S : x <= y
SetMax(S) == CHOOSE x \in S : \A y \in S : x >= y
Range(s) == {s[i] : i \in 1..Len(s)}
Take(s, n) == SubSeq(s, 1, Min(n, Len(s)))
Drop(s, n) == SubSeq(s, n + 1, Len(s))
RemoveAt(s, i) == SubSeq(s, 1, i - 1) \o SubSeq(s, i + 1, Len(s))
InsertAt(s, i, x) == SubSeq(s, 1, i - 1) \o <<x>> \o SubSeq(s, i, Len(s))

\* With(v, LAMBDA x : e) is e with x standing for v: a local name for a
\* value, as an assignment to a local variable gives it
With(v, F(_)) == F(v)

(***************************************************************************)
(* Text.  Character codes keep the byte order of the characters they stand *)
(* for: 0 is the space, 1..9 are capital letters, 11..19 the same letters  *)
(* in lower case, 21..29 the lower-case letters carrying an accent.        *)
(***************************************************************************)
SP == 0

str_lower_ch(c) == IF c \in 1..9 THEN c + 10 ELSE c
nfkd_strip_ch(c) == IF c \in 21..29 THEN c - 10 ELSE c

str_strip(s) ==
  With({i \in 1..Len(s) : s[i] # SP}, LAMBDA keep :
    IF keep = {} THEN <<>> ELSE SubSeq(s, SetMin(keep), SetMax(keep)))

str_lower(s) == [i \in 1..Len(s) |-> str_lower_ch(s[i])]

\* ISAM.py normalize_text: strip, lower, NFKD, drop combining marks.
normalize_text(s) ==
  With(str_lower(str_strip(s)), LAMBDA t :
    [i \in 1..Len(t) |-> nfkd_strip_ch(t[i])])

\* character i of s once s is left-justified with spaces (str.ljust)
ChAt(s, i) == IF i <= Len(s) THEN s[i] ELSE SP

\* three-way comparison of two texts, both padded with spaces to one width
TextCmp(a, b) ==
  With({i \in 1..Max(Len(a), Len(b)) : ChAt(a, i) # ChAt(b, i)}, LAMBDA d :
    IF d = {} THEN 0
    ELSE With(SetMin(d), LAMBDA i :
           IF ChAt(a, i) < ChAt(b, i) THEN 0 - 1 ELSE 1))

(***************************************************************************)
(* ISAM: constants, keys, records, pages                                   *)
(***************************************************************************)
BLOCK_FACTOR == 8
NAME_BYTES == 64
CITY_BYTES == 48
INDEX_FANOUT == 64
\* the id 9999999999 that ISAM.search puts in the key of a lookup without
\* id: ten nines, above every id a key can spell; written here as the
\* largest integer of the model checker, every id of the model below it
ID_SENTINEL == 2147483647

\* make_key: the name field, the city field and the zero-padded id.  The
\* fields are kept without their padding and compared as padded (KeyCmp).
make_key(name, city, restaurant_id) ==
  [name |-> Take(normalize_text(name), NAME_BYTES),
   city |-> Take(normalize_text(city), CITY_BYTES),
   id |-> restaurant_id]

\* the empty string, which the code passes where a page has no first key
EmptyKey == [name |-> <<>>, city |-> <<>>, id |-> 0 - 1]

\* string comparison of two keys: -1, 0 or 1
KeyCmp(k1, k2) ==
  With(TextCmp(k1.name, k2.name), LAMBDA cn :
    IF cn # 0 THEN cn
    ELSE With(TextCmp(k1.city, k2.city), LAMBDA cc :
           IF cc # 0 THEN cc
           ELSE IF k1.id < k2.id THEN 0 - 1
           ELSE IF k1.id > k2.id THEN 1 ELSE 0))

Record_key(r) == make_key(r.name, r.city, r.restaurant_id)

\* Record.pack then Record.unpack: text cut to the field width, then
\* stripped of padding and blanks.
Record_roundtrip(r) ==
  [r EXCEPT !.name = str_strip(Take(r.name, NAME_BYTES)),
            !.city = str_strip(Take(r.city, CITY_BYTES))]

Page(records, next_page) == [records |-> records, next_page |-> next_page]

Page_first_key(pg) ==
  IF pg.records # <<>> THEN Record_key(pg.records[1]) ELSE EmptyKey

read_page_at(data, off) == data[off + 1]

write_page_at(data, off, pg) ==
  [data EXCEPT ![off + 1] =
     Page([i \in 1..Len(pg.records) |-> Record_roundtrip(pg.records[i])],
          pg.next_page)]

\* the new file; the page lands at offset Len(data)
append_page(data, pg) ==
  Append(data,
         Page([i \in 1..Len(pg.records) |-> Record_roundtrip(pg.records[i])],
              pg.next_page))

\* list.sort(key=...) of a list of [k, v] pairs: stable, ascending by k
RECURSIVE SortPairs(_)
SortPairs(s) ==
  IF s = <<>> THEN <<>>
  ELSE With(SortPairs(SubSeq(s, 1, Len(s) - 1)), LAMBDA rest :
       With({i \in 1..Len(rest) : KeyCmp(rest[i].k, s[Len(s)].k) <= 0}, LAMBDA le :
         InsertAt(rest, (IF le = {} THEN 0 ELSE SetMax(le)) + 1, s[Len(s)])))

sort_records(recs) ==
  With(SortPairs([i \in 1..Len(recs) |->
                    [k |-> Record_key(recs[i]), v |-> recs[i]]]), LAMBDA ps :
    [i \in 1..Len(ps) |-> ps[i].v])

(***************************************************************************)
(* ISAM: the multilevel index (MultiLevelIndex)                            *)
(*   index == [nodes, root_off]; the index file exists iff nodes # <<>>    *)
(***************************************************************************)
IndexNode(is_leaf, p0, keys, ptrs) ==
  [is_leaf |-> is_leaf, p0 |-> p0, keys |-> keys, ptrs |-> ptrs]

EmptyIndex == [nodes |-> <<>>, root_off |-> NIL]

read_node(nodes, off) == nodes[off + 1]

\* bisect.bisect_right(a, x) as the library computes it (binary search,
\* also on a list that is not sorted)
RECURSIVE bisect_loop(_, _, _, _)
bisect_loop(a, x, lo, hi) ==
  IF lo >= hi THEN lo
  ELSE With((lo + hi) \div 2, LAMBDA mid :
         IF KeyCmp(x, a[mid + 1]) < 0
         THEN bisect_loop(a, x, lo, mid)
         ELSE bisect_loop(a, x, mid + 1, hi))

bisect_right(a, x) == bisect_loop(a, x, 0, Len(a))

\* consecutive slices of s, n elements each (the last one shorter)
RECURSIVE Chunks(_, _)
Chunks(s, n) ==
  IF s = <<>> THEN <<>> ELSE <<Take(s, n)>> \o Chunks(Drop(s, n), n)

RECURSIVE node_first_key(_, _, _)
node_first_key(nodes, nd, data) ==
  IF nd.is_leaf THEN Page_first_key(read_page_at(data, nd.p0))
  ELSE node_first_key(nodes, read_node(nodes, nd.p0), data)

\* step 7 of rebuild_from_data: parent levels until one node is left
RECURSIVE build_levels(_, _, _)
build_levels(nodes, current_children, data) ==
  IF Len(current_children) <= 1
  THEN [nodes |-> nodes, root_off |-> current_children[1]]
  ELSE With(Chunks(current_children, INDEX_FANOUT), LAMBDA groups :
       With([j \in 1..Len(groups) |->
               With(groups[j], LAMBDA kids :
                 IndexNode(FALSE, kids[1],
                   [i \in 1..Len(kids) - 1 |->
                      node_first_key(nodes, read_node(nodes, kids[i + 1]), data)],
                   [i \in 1..Len(kids) - 1 |-> kids[i + 1]]))], LAMBDA parents :
         build_levels(nodes \o parents,
                      [j \in 1..Len(parents) |-> Len(nodes) + j - 1], data)))

rebuild_from_data(data) ==
  With({data[i].next_page : i \in 1..Len(data)} \ {NIL}, LAMBDA overflow_set :
  With(SelectSeq([i \in 1..Len(data) |-> i - 1],
                 LAMBDA o : o \notin overflow_set), LAMBDA base_offsets :
  With(SelectSeq(base_offsets,
                 LAMBDA o : read_page_at(data, o).records # <<>>), LAMBDA with_recs :
  With(SortPairs([i \in 1..Len(with_recs) |->
         [k |-> Record_key(read_page_at(data, with_recs[i]).records[1]),
          v |-> with_recs[i]]]), LAMBDA leaves_entries :
    IF leaves_entries = <<>> THEN EmptyIndex
    ELSE
      With(Chunks(leaves_entries, INDEX_FANOUT), LAMBDA groups :
      With([j \in 1..Len(groups) |->
              With(groups[j], LAMBDA chunk :
                IndexNode(TRUE, chunk[1].v,
                          [i \in 1..Len(chunk) - 1 |-> chunk[i + 1].k],
                          [i \in 1..Len(chunk) - 1 |-> chunk[i + 1].v]))],
           LAMBDA leaf_nodes :
        build_levels(leaf_nodes,
                     [j \in 1..Len(leaf_nodes) |-> j - 1], data)))))))

RECURSIVE find_descend(_, _, _)
find_descend(nodes, off, key) ==
  With(read_node(nodes, off), LAMBDA nd :
  With(bisect_right(nd.keys, key), LAMBDA i :
  With(IF i = 0 THEN nd.p0 ELSE nd.ptrs[i], LAMBDA child :
    IF nd.is_leaf THEN child ELSE find_descend(nodes, child, key))))

find_page_offset(index, key) ==
  IF index.root_off = NIL \/ index.nodes = <<>> THEN NIL
  ELSE find_descend(index.nodes, index.root_off, key)

\* offsets of the leaves under off, left to right (the DFS of
\* update_first_key_of_page)
RECURSIVE leaves_under(_, _)
RECURSIVE leaves_of_seq(_, _)
leaves_under(nodes, off) ==
  With(read_node(nodes, off), LAMBDA nd :
    IF nd.is_leaf THEN <<off>>
    ELSE leaves_of_seq(nodes, <<nd.p0>> \o nd.ptrs))
leaves_of_seq(nodes, offs) ==
  IF offs = <<>> THEN <<>>
  ELSE leaves_under(nodes, offs[1]) \o leaves_of_seq(nodes, Drop(offs, 1))

\* new_first_key is never None at the call sites modelled (they pass the
\* first key of a non-empty page, or `first_key() or ""`)
update_first_key_of_page(index, page_off, new_first_key) ==
  IF index.root_off = NIL THEN index
  ELSE With(leaves_under(index.nodes, index.root_off), LAMBDA leaves :
       With({<<l, i>> \in (1..Len(leaves)) \X (1..(INDEX_FANOUT - 1)) :
               /\ i <= Len(read_node(index.nodes, leaves[l]).ptrs)
               /\ read_node(index.nodes, leaves[l]).ptrs[i] = page_off},
            LAMBDA hits :
         IF hits = {} THEN index
         ELSE With(CHOOSE h \in hits : \A g \in hits :
                     h[1] < g[1] \/ (h[1] = g[1] /\ h[2] <= g[2]), LAMBDA h :
                [index EXCEPT
                   !.nodes[leaves[h[1]] + 1].keys[h[2]] = new_first_key])))

(***************************************************************************)
(* ISAM: the class ISAM.  isam == [data, index]                            *)
(***************************************************************************)
EmptyISAM == [data |-> <<>>, index |-> EmptyIndex]

ISAM_has_index(im) == im.index.nodes # <<>> /\ im.index.root_off # NIL

RECURSIVE chain_offsets(_, _)
chain_offsets(data, off) ==
  IF off = NIL THEN <<>>
  ELSE <<off>> \o chain_offsets(data, read_page_at(data, off).next_page)

ISAM_build(records) ==
  With(Chunks(sort_records(records), BLOCK_FACTOR), LAMBDA batches :
  With([i \in 1..Len(batches) |->
          Page([j \in 1..Len(batches[i]) |->
                  Record_roundtrip(batches[i][j])], NIL)], LAMBDA data :
    [data |-> data, index |-> rebuild_from_data(data)]))

\* the first record of the page chain from off that matches; visited guards
\* the walk as the code's visited set does
RECURSIVE search_chain(_, _, _, _, _, _)
search_chain(data, off, visited, name_norm, city_norm, restaurant_id) ==
  IF off = NIL \/ off \in visited THEN [found |-> FALSE]
  ELSE With(read_page_at(data, off), LAMBDA pg :
       With({i \in 1..Len(pg.records) :
               /\ normalize_text(pg.records[i].name) = name_norm
               /\ normalize_text(pg.records[i].city) = city_norm
               /\ (restaurant_id = NoneId
                   \/ pg.records[i].restaurant_id = restaurant_id)}, LAMBDA hit :
         IF hit # {}
         THEN [found |-> TRUE, off |-> off, rec |-> pg.records[SetMin(hit)]]
         ELSE search_chain(data, pg.next_page, visited \cup {off},
                           name_norm, city_norm, restaurant_id)))

\* the fallback sweep of ISAM.search over every page of the file
prefix_scan(data, name_norm, city_norm) ==
  With({<<p, i>> \in (1..Len(data)) \X (1..BLOCK_FACTOR) :
          /\ i <= Len(data[p].records)
          /\ TextCmp(Take(normalize_text(data[p].records[i].name), NAME_BYTES),
                     Take(name_norm, NAME_BYTES)) = 0
          /\ TextCmp(Take(normalize_text(data[p].records[i].city), CITY_BYTES),
                     Take(city_norm, CITY_BYTES)) = 0}, LAMBDA hits :
    IF hits = {} THEN [found |-> FALSE]
    ELSE With(CHOOSE h \in hits : \A g \in hits :
                h[1] < g[1] \/ (h[1] = g[1] /\ h[2] <= g[2]), LAMBDA h :
           [found |-> TRUE, off |-> h[1] - 1, rec |-> data[h[1]].records[h[2]]]))

\* ISAM.search: [found |-> FALSE] is None, otherwise the pair (off, rec)
ISAM_search(im, name, city, restaurant_id) ==
  IF ~ISAM_has_index(im) THEN [found |-> FALSE]
  ELSE With(normalize_text(name), LAMBDA name_norm :
       With(normalize_text(city), LAMBDA city_norm :
       With(make_key(name_norm, city_norm,
                     IF restaurant_id # NoneId THEN restaurant_id
                     ELSE ID_SENTINEL), LAMBDA k :
       With(search_chain(im.data, find_page_offset(im.index, k), {},
                         name_norm, city_norm, restaurant_id), LAMBDA first :
         IF first.found THEN first
         ELSE IF restaurant_id = NoneId
              THEN prefix_scan(im.data, name_norm, city_norm)
              ELSE [found |-> FALSE]))))

ISAM_insert(im, rec) ==
  IF ~ISAM_has_index(im) THEN ISAM_build(<<rec>>)
  ELSE
    With(find_page_offset(im.index, Record_key(rec)), LAMBDA base_off :
    With(read_page_at(im.data, base_off), LAMBDA base_pg :
      IF Len(base_pg.records) < BLOCK_FACTOR
      THEN With(Page(sort_records(Append(base_pg.records, rec)),
                     base_pg.next_page), LAMBDA pg :
             [data |-> write_page_at(im.data, base_off, pg),
              index |-> update_first_key_of_page(
                          im.index, base_off, Page_first_key(pg))])
      ELSE With(chain_offsets(im.data, base_off), LAMBDA chain :
           With(chain[Len(chain)], LAMBDA last_off :
           With(read_page_at(im.data, last_off), LAMBDA last_pg :
           With(IF Len(last_pg.records) < BLOCK_FACTOR
                THEN write_page_at(im.data, last_off,
                       Page(sort_records(Append(last_pg.records, rec)),
                            last_pg.next_page))
                ELSE write_page_at(append_page(im.data, Page(<<rec>>, NIL)),
                       last_off, Page(last_pg.records, Len(im.data))),
                LAMBDA data :
             [data |-> data, index |-> rebuild_from_data(data)]))))))

\* the loop of ISAM.delete from page off, prev_off the page before it
RECURSIVE delete_walk(_, _, _, _, _, _, _)
delete_walk(im, base_off, prev_off, off, name, city, restaurant_id) ==
  IF off = NIL THEN [isam |-> im, ret |-> FALSE]
  ELSE
    With(read_page_at(im.data, off), LAMBDA pg :
    With({i \in 1..Len(pg.records) :
            /\ str_strip(str_lower(pg.records[i].name))
                 = str_strip(str_lower(name))
            /\ str_strip(str_lower(pg.records[i].city))
                 = str_strip(str_lower(city))
            /\ (restaurant_id = NoneId
                \/ pg.records[i].restaurant_id = restaurant_id)}, LAMBDA hit :
       IF hit = {}
       THEN delete_walk(im, base_off, off, pg.next_page, name, city, restaurant_id)
       ELSE
         With(RemoveAt(pg.records, SetMin(hit)), LAMBDA left :
            IF off = base_off
            THEN
              IF left # <<>>
              THEN [isam |-> [data |-> write_page_at(im.data, off,
                                                     Page(left, pg.next_page)),
                              index |-> update_first_key_of_page(
                                 im.index, off,
                                 Page_first_key(Page(left, pg.next_page)))],
                    ret |-> TRUE]
              ELSE IF pg.next_page # NIL
              THEN
                With(read_page_at(im.data, pg.next_page), LAMBDA nxt :
                   IF nxt.records # <<>>
                   THEN With(Drop(nxt.records, 1), LAMBDA rest :
                        With(Page(<<nxt.records[1]>>, nxt.next_page), LAMBDA base :
                        With(write_page_at(im.data, off, base), LAMBDA d1 :
                          [isam |->
                             [data |-> IF rest # <<>>
                                       THEN write_page_at(d1, pg.next_page,
                                                          Page(rest, nxt.next_page))
                                       ELSE d1,
                              index |-> update_first_key_of_page(
                                 update_first_key_of_page(
                                    im.index, off, Page_first_key(base)),
                                 pg.next_page,
                                 Page_first_key(Page(rest, nxt.next_page)))],
                           ret |-> TRUE])))
                   ELSE [isam |->
                           [data |-> write_page_at(im.data, off,
                                                   Page(<<>>, nxt.next_page)),
                            index |-> update_first_key_of_page(
                                        im.index, off, EmptyKey)],
                         ret |-> TRUE])
              ELSE [isam |-> [data |-> write_page_at(im.data, off, Page(<<>>, NIL)),
                              index |-> update_first_key_of_page(
                                          im.index, off, EmptyKey)],
                    ret |-> TRUE]
            ELSE
              IF left # <<>>
              THEN [isam |-> [im EXCEPT !.data =
                      write_page_at(im.data, off, Page(left, pg.next_page))],
                    ret |-> TRUE]
              ELSE IF prev_off # NIL
              THEN [isam |-> [im EXCEPT !.data =
                       write_page_at(im.data, prev_off,
                          Page(read_page_at(im.data, prev_off).records,
                               pg.next_page))],
                    ret |-> TRUE]
              ELSE [isam |-> im, ret |-> TRUE])))

\* ISAM.delete: the new index state and the boolean it returns
ISAM_delete(im, name, city, restaurant_id) ==
  IF ~ISAM_has_index(im) THEN [isam |-> im, ret |-> FALSE]
  ELSE With(find_page_offset(im.index,
              make_key(name, city,
                       IF restaurant_id # NoneId THEN restaurant_id ELSE 0)),
            LAMBDA base_off :
         delete_walk(im, base_off, NIL, base_off, name, city, restaurant_id))

\* DataFile.iter_pages flattened: every record of every page, in file order
RECURSIVE Flatten(_)
Flatten(ss) == IF ss = <<>> THEN <<>> ELSE ss[1] \o Flatten(Drop(ss, 1))

all_page_records(data) == Flatten([i \in 1..Len(data) |-> data[i].records])

\* one `for rec in pg.records` loop of ISAM.range_search: the (off, rec)
\* pairs it appends, and whether it met a key above end_key and returned
range_page(recs, off, begin_key, end_key) ==
  With({i \in 1..Len(recs) : KeyCmp(Record_key(recs[i]), end_key) > 0}, LAMBDA above :
  With(IF above = {} THEN Len(recs) ELSE SetMin(above) - 1, LAMBDA seen :
    [res |-> SelectSeq([i \in 1..seen |-> [off |-> off, rec |-> recs[i]]],
                       LAMBDA h : KeyCmp(Record_key(h.rec), begin_key) >= 0),
     done |-> above # {}]))

\* the inner `while nxt_off != -1` loop over the overflow chain
RECURSIVE range_overflow(_, _, _, _)
range_overflow(data, nxt_off, begin_key, end_key) ==
  IF nxt_off = NIL THEN [res |-> <<>>, done |-> FALSE]
  ELSE With(read_page_at(data, nxt_off), LAMBDA pgo :
       With(range_page(pgo.records, nxt_off, begin_key, end_key), LAMBDA here :
         IF here.done THEN here
         ELSE With(range_overflow(data, pgo.next_page, begin_key, end_key),
                   LAMBDA more :
                [res |-> here.res \o more.res, done |-> more.done])))

\* the outer `while off != -1` loop: the page at off, its chain, then the
\* page that follows it in the file
RECURSIVE range_walk(_, _, _, _)
range_walk(data, off, begin_key, end_key) ==
  With(read_page_at(data, off), LAMBDA pg :
  With(range_page(pg.records, off, begin_key, end_key), LAMBDA here :
    IF here.done THEN here.res
    ELSE With(range_overflow(data, pg.next_page, begin_key, end_key), LAMBDA over :
           IF over.done \/ off + 1 >= Len(data)
           THEN here.res \o over.res
           ELSE here.res \o over.res
                  \o range_walk(data, off + 1, begin_key, end_key))))

\* ISAM.range_search: the list of (off, rec) pairs
ISAM_range_search(im, begin_key, end_key) ==
  With(find_page_offset(im.index, begin_key), LAMBDA off :
    IF off = NIL THEN <<>> ELSE range_walk(im.data, off, begin_key, end_key))

(***************************************************************************)
(* AVLFile: avl == [nodes, root_pos, heap]                                 *)
(*   nodes: the node file after its root header, node pos at nodes[pos+1]; *)
(*   heap: the payload file, one packed record per slot, slot number as    *)
(*   data_off.                                                             *)
(***************************************************************************)
AVL_NAME_BYTES == 50
AVL_CITY_BYTES == 30

EmptyAVL == [nodes |-> <<>>, root_pos |-> NIL, heap |-> <<>>]

AVLNode(id, left, right, height, data_off) ==
  [id |-> id, left |-> left, right |-> right, height |-> height,
   data_off |-> data_off]

\* struct 'f': a double stored as a float and read back.  Numbers are kept
\* in thousandths and every number given to the program is a multiple of
\* ten thousandths; one that is no multiple of 0.25 has no exact float and
\* comes back a fraction of a thousandth off, kept here as one thousandth
\* (F32Up lists the values whose nearest float lies above them).
F32Up == {3900, 4300, 4400, 4800, 14550, 14560}
to_float32(x) ==
  IF x % 250 = 0 THEN x ELSE IF x \in F32Up THEN x + 1 ELSE x - 1

\* AVLDataFile.write_record then read_record
avl_payload(rec) ==
  [restaurant_id |-> rec.restaurant_id,
   restaurant_name |-> str_strip(Take(str_strip(rec.name), AVL_NAME_BYTES)),
   city |-> str_strip(Take(str_strip(rec.city), AVL_CITY_BYTES)),
   longitude |-> to_float32(rec.longitude),
   latitude |-> to_float32(rec.latitude),
   average_cost_for_two |-> rec.avg_cost_for_two,
   aggregate_rating |-> to_float32(rec.aggregate_rating),
   votes |-> rec.votes]

avl_height(nodes, pos) == IF pos = NIL THEN 0 - 1 ELSE nodes[pos + 1].height

avl_update_height(nodes, pos) ==
  LET n == nodes[pos + 1]
  IN [nodes EXCEPT ![pos + 1].height =
        Max(avl_height(nodes, n.left), avl_height(nodes, n.right)) + 1]

avl_balance_factor(nodes, pos) ==
  avl_height(nodes, nodes[pos + 1].left) - avl_height(nodes, nodes[pos + 1].right)

\* each rotation returns [nodes, pos]: the file and the new subtree root
avl_rotate_right_at(nodes, pos) ==
  LET y_pos == nodes[pos + 1].left
      n1 == [nodes EXCEPT ![pos + 1].left = nodes[y_pos + 1].right,
                          ![y_pos + 1].right = pos]
  IN [nodes |-> avl_update_height(avl_update_height(n1, pos), y_pos),
      pos |-> y_pos]

avl_rotate_left_at(nodes, pos) ==
  LET y_pos == nodes[pos + 1].right
      n1 == [nodes EXCEPT ![pos + 1].right = nodes[y_pos + 1].left,
                          ![y_pos + 1].left = pos]
  IN [nodes |-> avl_update_height(avl_update_height(n1, pos), y_pos),
      pos |-> y_pos]

\* a rebalance that leaves the subtree as it is
avl_rebalance_never(nodes, pos) == [nodes |-> nodes, pos |-> pos]

avl_rebalance_at(nodes, pos) ==
  LET bf == avl_balance_factor(nodes, pos)
      n == nodes[pos + 1]
  IN IF bf > 1
     THEN IF avl_balance_factor(nodes, n.left) < 0
          THEN LET r == avl_rotate_left_at(nodes, n.left)
               IN avl_rotate_right_at([r.nodes EXCEPT ![pos + 1].left = r.pos], pos)
          ELSE avl_rotate_right_at(nodes, pos)
     ELSE IF bf < 0 - 1
     THEN IF avl_balance_factor(nodes, n.right) > 0
          THEN LET r == avl_rotate_right_at(nodes, n.right)
               IN avl_rotate_left_at([r.nodes EXCEPT ![pos + 1].right = r.pos], pos)
          ELSE avl_rotate_left_at(nodes, pos)
     ELSE [nodes |-> nodes, pos |-> pos]

RECURSIVE avl_insert_rec(_, _, _)
avl_insert_rec(nodes, pos, node) ==
  IF pos = NIL THEN [nodes |-> Append(nodes, node), pos |-> Len(nodes)]
  ELSE IF node.id = nodes[pos + 1].id THEN [nodes |-> nodes, pos |-> pos]
  ELSE With(IF node.id < nodes[pos + 1].id
            THEN With(avl_insert_rec(nodes, nodes[pos + 1].left, node), LAMBDA r :
                   [r.nodes EXCEPT ![pos + 1].left = r.pos])
            ELSE With(avl_insert_rec(nodes, nodes[pos + 1].right, node), LAMBDA r :
                   [r.nodes EXCEPT ![pos + 1].right = r.pos]), LAMBDA n1 :
         avl_rebalance_at(avl_update_height(n1, pos), pos))

\* AVLFile.insert of a record already normalised by normalize_record
AVL_insert(t, rec) ==
  With(avl_insert_rec(t.nodes, t.root_pos,
                      AVLNode(rec.restaurant_id, NIL, NIL, 0, Len(t.heap))),
       LAMBDA r :
    [nodes |-> r.nodes, root_pos |-> r.pos,
     heap |-> Append(t.heap, avl_payload(rec))])

RECURSIVE avl_search_from(_, _, _)
avl_search_from(t, pos, rid) ==
  IF pos = NIL THEN [found |-> FALSE]
  ELSE LET n == t.nodes[pos + 1]
       IN IF rid = n.id THEN [found |-> TRUE, rec |-> t.heap[n.data_off + 1]]
          ELSE avl_search_from(t, IF rid < n.id THEN n.left ELSE n.right, rid)

\* a search that reads the newest payload written for the id
avl_search_latest(t, rid) ==
  With(avl_search_from(t, t.root_pos, rid), LAMBDA r :
    IF ~r.found THEN r
    ELSE [found |-> TRUE,
          rec |-> t.heap[SetMax({i \in 1..Len(t.heap) :
                                   t.heap[i].restaurant_id = rid})]])

AVL_search(t, rid) == avl_search_from(t, t.root_pos, rid)

RECURSIVE avl_min_pos(_, _)
avl_min_pos(nodes, pos) ==
  IF nodes[pos + 1].left = NIL THEN pos ELSE avl_min_pos(nodes, nodes[pos + 1].left)

RECURSIVE avl_remove_rec(_, _, _)
avl_remove_rec(nodes, pos, rid) ==
  IF pos = NIL THEN [nodes |-> nodes, pos |-> NIL]
  ELSE With(nodes[pos + 1], LAMBDA n :
         IF rid = n.id /\ n.left = NIL THEN [nodes |-> nodes, pos |-> n.right]
         ELSE IF rid = n.id /\ n.right = NIL THEN [nodes |-> nodes, pos |-> n.left]
         ELSE
           With(IF rid < n.id
                THEN With(avl_remove_rec(nodes, n.left, rid), LAMBDA r :
                       [r.nodes EXCEPT ![pos + 1].left = r.pos])
                ELSE IF rid > n.id
                THEN With(avl_remove_rec(nodes, n.right, rid), LAMBDA r :
                       [r.nodes EXCEPT ![pos + 1].right = r.pos])
                ELSE With(nodes[avl_min_pos(nodes, n.right) + 1], LAMBDA succ :
                     With(avl_remove_rec(nodes, n.right, succ.id), LAMBDA r :
                       [r.nodes EXCEPT ![pos + 1].id = succ.id,
                                       ![pos + 1].data_off = succ.data_off,
                                       ![pos + 1].right = r.pos])), LAMBDA n1 :
             avl_rebalance_at(avl_update_height(n1, pos), pos)))

\* a remove that leaves the tree as it is
avl_remove_nothing(t, rid) == t

AVL_remove(t, rid) ==
  With(avl_remove_rec(t.nodes, t.root_pos, rid), LAMBDA r :
    [t EXCEPT !.nodes = r.nodes, !.root_pos = r.pos])

\* _iter_records: the payloads in in-order traversal
RECURSIVE avl_inorder(_, _)
avl_inorder(t, pos) ==
  IF pos = NIL THEN <<>>
  ELSE LET n == t.nodes[pos + 1]
       IN avl_inorder(t, n.left) \o <<t.heap[n.data_off + 1]>>
            \o avl_inorder(t, n.right)

AVL_iter_records(t) == avl_inorder(t, t.root_pos)

\* inorder_ids: the ids of the nodes, left subtree, node, right subtree
RECURSIVE avl_inorder_from(_, _)
avl_inorder_from(nodes, pos) ==
  IF pos = NIL THEN <<>>
  ELSE avl_inorder_from(nodes, nodes[pos + 1].left) \o <<nodes[pos + 1].id>>
         \o avl_inorder_from(nodes, nodes[pos + 1].right)

AVL_inorder_ids(t) == avl_inorder_from(t.nodes, t.root_pos)

(***************************************************************************)
(* BPlusTreeIndex: bpt == [nodes, root_pos]; node at block pos is          *)
(* nodes[pos+1].  A leaf keeps its values in children.                     *)
(***************************************************************************)
ORDER == 4

BPlusNode(is_leaf, keys, children, next_leaf) ==
  [is_leaf |-> is_leaf, keys |-> keys, children |-> children,
   next_leaf |-> next_leaf]

\* BPlusTreeIndex.__init__ on files that do not exist: one empty leaf
NewBPT == [nodes |-> <<BPlusNode(TRUE, <<>>, <<>>, NIL)>>, root_pos |-> 0]

\* the child slot the descent takes: the count of leading keys <= key
RECURSIVE bpt_child_index(_, _, _)
bpt_child_index(keys, key, i) ==
  IF i < Len(keys) /\ key >= keys[i + 1]
  THEN bpt_child_index(keys, key, i + 1) ELSE i

RECURSIVE bpt_find_leaf(_, _, _)
bpt_find_leaf(nodes, pos, key) ==
  LET node == nodes[pos + 1]
  IN IF node.is_leaf THEN pos
     ELSE bpt_find_leaf(nodes,
            node.children[bpt_child_index(node.keys, key, 0) + 1], key)

\* BPlusTreeIndex.search: the value, or [found |-> FALSE] for None
BPT_search(t, key) ==
  LET node == t.nodes[bpt_find_leaf(t.nodes, t.root_pos, key) + 1]
      hit == {i \in 1..Len(node.keys) : node.keys[i] = key}
  IN IF hit = {} THEN [found |-> FALSE]
     ELSE [found |-> TRUE, value |-> node.children[SetMin(hit)]]

\* the linked-leaf walk of range_search from leaf pos: (k, v) pairs until a
\* key above end_key
RECURSIVE bpt_walk(_, _, _, _)
bpt_walk(nodes, pos, start_key, end_key) ==
  IF pos = NIL THEN <<>>
  ELSE LET node == nodes[pos + 1]
           over == {i \in 1..Len(node.keys) :
                      ~(start_key <= node.keys[i] /\ node.keys[i] <= end_key)
                      /\ node.keys[i] > end_key}
           upto == IF over = {} THEN Len(node.keys) ELSE SetMin(over) - 1
           idx == SelectSeq([i \in 1..upto |-> i],
                    LAMBDA i : start_key <= node.keys[i] /\ node.keys[i] <= end_key)
           here == [j \in 1..Len(idx) |->
                      [k |-> node.keys[idx[j]], v |-> node.children[idx[j]]]]
       IN IF over # {} THEN here
          ELSE here \o bpt_walk(nodes, node.next_leaf, start_key, end_key)

\* a range search that reads the first leaf only
range_first_leaf_only(t, start_key, end_key) ==
  With(t.nodes[bpt_find_leaf(t.nodes, t.root_pos, start_key) + 1], LAMBDA node :
    With(SelectSeq([i \in 1..Len(node.keys) |-> i],
           LAMBDA i : start_key <= node.keys[i] /\ node.keys[i] <= end_key),
         LAMBDA idx :
      [j \in 1..Len(idx) |->
         [k |-> node.keys[idx[j]], v |-> node.children[idx[j]]]]))

BPT_range_search(t, start_key, end_key) ==
  bpt_walk(t.nodes, bpt_find_leaf(t.nodes, t.root_pos, start_key),
           start_key, end_key)

\* position at which sorted(zip(keys, children)) puts a key that is not
\* among keys
bpt_sorted_pos(keys, key) == Cardinality({i \in 1..Len(keys) : keys[i] < key}) + 1

\* a leaf split that hands the parent the first key of the left half
split_leaf_left_key(nodes, pos, node) ==
  LET mid == Len(node.keys) \div 2
      right_pos == Len(nodes)
      right == BPlusNode(TRUE, Drop(node.keys, mid), Drop(node.children, mid),
                         node.next_leaf)
      left == BPlusNode(TRUE, Take(node.keys, mid), Take(node.children, mid),
                        right_pos)
  IN [nodes |-> Append([nodes EXCEPT ![pos + 1] = left], right),
      new_child |-> right_pos, split_key |-> left.keys[1]]

bpt_split_leaf(nodes, pos, node) ==
  LET mid == Len(node.keys) \div 2
      right_pos == Len(nodes)
      right == BPlusNode(TRUE, Drop(node.keys, mid), Drop(node.children, mid),
                         node.next_leaf)
      left == BPlusNode(TRUE, Take(node.keys, mid), Take(node.children, mid),
                        right_pos)
  IN [nodes |-> Append([nodes EXCEPT ![pos + 1] = left], right),
      new_child |-> right_pos, split_key |-> right.keys[1]]

bpt_split_internal(nodes, pos, node) ==
  LET mid == Len(node.keys) \div 2
      right == BPlusNode(FALSE, Drop(node.keys, mid + 1),
                         Drop(node.children, mid + 1), NIL)
      left == BPlusNode(FALSE, Take(node.keys, mid),
                        Take(node.children, mid + 1), node.next_leaf)
  IN [nodes |-> Append([nodes EXCEPT ![pos + 1] = left], right),
      new_child |-> Len(nodes), split_key |-> node.keys[mid + 1]]

\* _insert_recursive: [nodes, new_child, split_key], new_child NIL when the
\* node at pos did not split
RECURSIVE bpt_insert_recursive(_, _, _, _)
bpt_insert_recursive(nodes, pos, key, value) ==
  LET node == nodes[pos + 1]
  IN IF node.is_leaf
     THEN LET hit == {i \in 1..Len(node.keys) : node.keys[i] = key}
          IN IF hit # {}
             THEN [nodes |-> [nodes EXCEPT ![pos + 1].children[SetMin(hit)] = value],
                   new_child |-> NIL, split_key |-> NIL]
             ELSE LET at == bpt_sorted_pos(node.keys, key)
                      grown == [node EXCEPT
                                  !.keys = InsertAt(node.keys, at, key),
                                  !.children = InsertAt(node.children, at, value)]
                  IN IF Len(grown.keys) > ORDER
                     THEN bpt_split_leaf(nodes, pos, grown)
                     ELSE [nodes |-> [nodes EXCEPT ![pos + 1] = grown],
                           new_child |-> NIL, split_key |-> NIL]
     ELSE LET i == bpt_child_index(node.keys, key, 0)
              r == bpt_insert_recursive(nodes, node.children[i + 1], key, value)
          IN IF r.new_child # NIL
             THEN LET grown == [node EXCEPT
                        !.keys = InsertAt(node.keys, i + 1, r.split_key),
                        !.children = InsertAt(node.children, i + 2, r.new_child)]
                  IN IF Len(grown.keys) > ORDER
                     THEN bpt_split_internal(r.nodes, pos, grown)
                     ELSE [nodes |-> [r.nodes EXCEPT ![pos + 1] = grown],
                           new_child |-> NIL, split_key |-> NIL]
             ELSE [nodes |-> r.nodes, new_child |-> NIL, split_key |-> NIL]

\* an insert that drops the sibling handed back by the root
insert_keeps_root(t, key, value) ==
  [nodes |-> bpt_insert_recursive(t.nodes, t.root_pos, key, value).nodes,
   root_pos |-> t.root_pos]

BPT_insert(t, key, value) ==
  With(bpt_insert_recursive(t.nodes, t.root_pos, key, value), LAMBDA r :
    IF r.new_child # NIL
    THEN [nodes |-> Append(r.nodes,
                      BPlusNode(FALSE, <<r.split_key>>,
                                <<t.root_pos, r.new_child>>, NIL)),
          root_pos |-> Len(r.nodes)]
    ELSE [nodes |-> r.nodes, root_pos |-> t.root_pos])

\* a remove that leaves the pair in its leaf
bpt_remove_nothing(t, key) == t

\* remove / delete: the key leaves its leaf, nothing is rebalanced
BPT_remove(t, key) ==
  LET pos == bpt_find_leaf(t.nodes, t.root_pos, key)
      node == t.nodes[pos + 1]
      hit == {i \in 1..Len(node.keys) : node.keys[i] = key}
  IN IF hit = {} THEN t
     ELSE [t EXCEPT !.nodes[pos + 1] =
             [node EXCEPT !.keys = RemoveAt(node.keys, SetMin(hit)),
                          !.children = RemoveAt(node.children, SetMin(hit))]]

(***************************************************************************)
(* ExtendibleHashing: hash == [bucket_capacity, global_depth, directory,   *)
(* buckets, next_bucket_id]; directory[i+1] is slot i, buckets[b] the last *)
(* block written for bucket id b, its items a set of [k, v] with k the     *)
(* id whose str() is the stored key.                                       *)
(***************************************************************************)
bucket_capacity == 4

Bucket(local_depth, items) == [local_depth |-> local_depth, items |-> items]

RECURSIVE Pow2(_)
Pow2(d) == IF d = 0 THEN 1 ELSE 2 * Pow2(d - 1)

\* ExtendibleHashing.__init__ without files on disk
NewHashWith(capacity) ==
  [bucket_capacity |-> capacity, global_depth |-> 1, directory |-> <<1, 1>>,
   buckets |-> <<Bucket(1, {})>>, next_bucket_id |-> 2]

\* the constructor with its default capacity, as IndexManager calls it
NewHash == NewHashWith(bucket_capacity)

\* _index: key_hash & ((1 << d) - 1), the hash being the key itself
hash_index(key_hash, d) == key_hash % Pow2(d)

bucket_keys(b) == {it.k : it \in b.items}

bucket_put(b, k, v) ==
  [b EXCEPT !.items = {it \in b.items : it.k # k} \cup {[k |-> k, v |-> v]}]

\* a split that doubles the directory whatever the depths are
split_doubling_always(h, idx) ==
  LET old_id == h.directory[idx + 1]
      old_bucket == h.buckets[old_id]
      dir0 == h.directory \o h.directory
      new_ld == old_bucket.local_depth + 1
      high(x) == (x \div Pow2(new_ld - 1)) % 2
  IN [bucket_capacity |-> h.bucket_capacity,
      global_depth |-> h.global_depth + 1,
      directory |-> [i \in 1..Len(dir0) |->
                       IF dir0[i] = old_id
                       THEN (IF high(i - 1) = 1 THEN h.next_bucket_id + 1
                             ELSE h.next_bucket_id)
                       ELSE dir0[i]],
      buckets |-> h.buckets
                    \o <<Bucket(new_ld, {it \in old_bucket.items :
                                           high(hash_index(it.k, new_ld)) = 0}),
                         Bucket(new_ld, {it \in old_bucket.items :
                                           high(hash_index(it.k, new_ld)) = 1})>>,
      next_bucket_id |-> h.next_bucket_id + 2]

hash_split_bucket(h, idx) ==
  LET old_id == h.directory[idx + 1]
      old_bucket == h.buckets[old_id]
      doubled == old_bucket.local_depth = h.global_depth
      dir0 == IF doubled THEN h.directory \o h.directory ELSE h.directory
      new_ld == old_bucket.local_depth + 1
      b0_id == h.next_bucket_id
      b1_id == h.next_bucket_id + 1
      high(x) == (x \div Pow2(new_ld - 1)) % 2
      dir1 == [i \in 1..Len(dir0) |->
                 IF dir0[i] = old_id
                 THEN (IF high(i - 1) = 1 THEN b1_id ELSE b0_id)
                 ELSE dir0[i]]
      b0 == Bucket(new_ld, {it \in old_bucket.items :
                              high(hash_index(it.k, new_ld)) = 0})
      b1 == Bucket(new_ld, {it \in old_bucket.items :
                              high(hash_index(it.k, new_ld)) = 1})
  IN [bucket_capacity |-> h.bucket_capacity,
      global_depth |-> IF doubled THEN h.global_depth + 1 ELSE h.global_depth,
      directory |-> dir1,
      buckets |-> h.buckets \o <<b0, b1>>,
      next_bucket_id |-> h.next_bucket_id + 2]

\* ExtendibleHashing.add: update in place, insert when there is room, else
\* split and retry
RECURSIVE Hash_add(_, _, _)
Hash_add(h, key, registro) ==
  LET idx == hash_index(key, h.global_depth)
      bid == h.directory[idx + 1]
      bucket == h.buckets[bid]
  IN IF key \in bucket_keys(bucket)
        \/ Cardinality(bucket.items) < h.bucket_capacity
     THEN [h EXCEPT !.buckets[bid] = bucket_put(bucket, key, registro)]
     ELSE Hash_add(hash_split_bucket(h, idx), key, registro)

\* ExtendibleHashing.search: bucket.items.get(str(key))
Hash_search(h, key) ==
  LET bucket == h.buckets[h.directory[hash_index(key, h.global_depth) + 1]]
      hit == {it \in bucket.items : it.k = key}
  IN IF hit = {} THEN [found |-> FALSE]
     ELSE [found |-> TRUE, value |-> (CHOOSE it \in hit : TRUE).v]

\* a remove that leaves the index as it is
hash_remove_nothing(h, key) == h

Hash_remove(h, key) ==
  LET bid == h.directory[hash_index(key, h.global_depth) + 1]
      bucket == h.buckets[bid]
  IN IF key \in bucket_keys(bucket)
     THEN [h EXCEPT !.buckets[bid] =
             [bucket EXCEPT !.items = {it \in bucket.items : it.k # key}]]
     ELSE h

(***************************************************************************)
(* RTreePoints: rtree == [rows, next_id, idx]; rows is _rows as a set of   *)
(* [pid, coords, payload], idx the entries [pid, coords] of the native     *)
(* index.  Coordinates are <<lon, lat>> in thousandths of a degree,        *)
(* distances in metres.                                                    *)
(***************************************************************************)
NewRTree == [rows |-> {}, next_id |-> 0, idx |-> {}]

\* add_point: the payload keys arrive already without blanks
\* ("Restaurant ID" -> "Restaurant_ID"); rows of the same Restaurant_ID are
\* replaced; save() writes the sidecar
\* an add_point that leaves earlier entries of the same Restaurant_ID alone
add_point_keeps_old(t, x, y, payload) ==
  [t EXCEPT
     !.rows = t.rows \cup {[pid |-> t.next_id, coords |-> <<x, y>>,
                            payload |-> payload]},
     !.next_id = t.next_id + 1,
     !.idx = t.idx \cup {[pid |-> t.next_id, coords |-> <<x, y>>]}]

RTree_add_point(t, x, y, payload) ==
  LET dup == {r \in t.rows : r.payload.Restaurant_ID = payload.Restaurant_ID}
      pid == t.next_id
  IN [t EXCEPT
        !.rows = (t.rows \ dup)
                   \cup {[pid |-> pid, coords |-> <<x, y>>, payload |-> payload]},
        !.next_id = t.next_id + 1,
        !.idx = {e \in t.idx : \A r \in dup : ~(e.pid = r.pid /\ e.coords = r.coords)}
                  \cup {[pid |-> pid, coords |-> <<x, y>>]}]

RTree_remove_point_by_id(t, restaurant_id) ==
  LET matches == {r \in t.rows : r.payload.Restaurant_ID = restaurant_id}
  IN [t EXCEPT !.rows = t.rows \ matches,
               !.idx = {e \in t.idx :
                          \A r \in matches : ~(e.pid = r.pid /\ e.coords = r.coords)}]

Abs(x) == IF x < 0 THEN 0 - x ELSE x

\* _haversine_km on the coordinates the model uses, in metres
haversine_m(a, b) ==
  LET pair == {a, b}
  IN IF a = b THEN 0
     ELSE IF pair = {<<121020, 14550>>, <<121030, 14560>>} THEN 1548
     ELSE IF pair = {<<121020, 14550>>, <<121500, 14550>>} THEN 51662
     ELSE IF pair = {<<121030, 14560>>, <<121500, 14550>>} THEN 50597
     ELSE IF pair = {<<0, 60000>>, <<18019, 60000>>} THEN 998711
     ELSE IF pair = {<<0, 60000>>, <<121020, 14550>>} THEN 10210431
     ELSE IF pair = {<<0, 60000>>, <<121030, 14560>>} THEN 10209887
     ELSE IF pair = {<<0, 60000>>, <<0 - 179990, 14550>>} THEN 11725521
     ELSE IF pair = {<<179990, 14550>>, <<0 - 179990, 14550>>} THEN 2153
     ELSE IF pair = {<<179990, 14550>>, <<121020, 14550>>} THEN 6327271
     ELSE IF pair = {<<179990, 14550>>, <<121030, 14560>>} THEN 6326049
     ELSE IF pair = {<<179990, 14550>>, <<18019, 60000>>} THEN 11568969
     ELSE IF pair = {<<121020, 14550>>, <<18019, 60000>>} THEN 9313718
     ELSE IF pair = {<<121020, 14550>>, <<0 - 179990, 14550>>} THEN 6329402
     ELSE 4762019

\* 1000 * cos(latitude) for the latitudes the model uses
cos_milli(lat) == IF lat < 20000 THEN 968 ELSE IF lat < 50000 THEN 878 ELSE 500

\* the bounding box of range_search_km: dlat = r / 111,
\* dlon = r / (111 * cos(lat))
in_bbox(point, radio_m, c) ==
  /\ Abs(c[2] - point[2]) * 111 <= radio_m
  /\ Abs(c[1] - point[1]) <= (radio_m * 1000) \div (111 * cos_milli(point[2]))

\* range_search_km: rows {"id": pid, "dist_km": d, **payload} sorted by
\* distance; the model keeps them as a set of [id, dist_km, payload]
RTree_range_search_km(t, point, radio_m) ==
  {[id |-> e.pid, dist_km |-> haversine_m(point, r.coords), payload |-> r.payload] :
     <<e, r>> \in {<<e, r>> \in t.idx \X t.rows :
                     /\ e.pid = r.pid
                     /\ in_bbox(point, radio_m, e.coords)
                     /\ haversine_m(point, r.coords) <= radio_m}}

\* AVLFile._normalize_attr on the attribute names the model uses
avl_normalize_attr(attr) ==
  CASE attr = "id" -> "restaurant_id"
    [] attr = "name" -> "restaurant_name"
    [] attr = "avg_cost_for_two" -> "average_cost_for_two"
    [] attr = "rating" -> "aggregate_rating"
    [] OTHER -> attr

avl_numeric_fields ==
  {"restaurant_id", "longitude", "latitude", "average_cost_for_two",
   "aggregate_rating", "votes"}

avl_field(rec, attr) ==
  CASE attr = "restaurant_id" -> rec.restaurant_id
    [] attr = "longitude" -> rec.longitude
    [] attr = "latitude" -> rec.latitude
    [] attr = "average_cost_for_two" -> rec.average_cost_for_two
    [] attr = "aggregate_rating" -> rec.aggregate_rating
    [] attr = "votes" -> rec.votes

\* _ok of search_comparison for a numeric field and a numeric value
cmp_ok(a, op, b) ==
  CASE op = "=" -> a = b
    [] op = ">" -> a > b
    [] op = "<" -> a < b
    [] op = ">=" -> a >= b
    [] op = "<=" -> a <= b
    [] OTHER -> FALSE

\* AVLFile.search_comparison: a scan of the payloads in id order.  A name
\* that is no field of the payload matches nothing; text fields are never
\* compared with the numbers the model passes.
AVL_search_comparison(t, attr, op, value) ==
  LET a == avl_normalize_attr(attr)
  IN IF a \notin avl_numeric_fields THEN <<>>
     ELSE SelectSeq(AVL_iter_records(t),
                    LAMBDA rec : cmp_ok(avl_field(rec, a), op, value))

AVL_search_between(t, attr, low, high) ==
  LET a == avl_normalize_attr(attr)
  IN IF a \notin avl_numeric_fields THEN <<>>
     ELSE SelectSeq(AVL_iter_records(t),
                    LAMBDA rec : low <= avl_field(rec, a) /\ avl_field(rec, a) <= high)

(***************************************************************************)
(* IndexManager.  A manager is m == [isam, hash, avl, bpt, rtree]; an      *)
(* engine attribute that is None is NoEngine.  Rows handed to callers are  *)
(* tagged with the shape they have in the code:                            *)
(*   "avl"   dict with restaurant_id, restaurant_name, ...                 *)
(*   "bpt"   dict {"restaurant_id", "restaurant_name"}                     *)
(*   "hash"  dict {"Restaurant ID", "Name", "City", "Rating", ...}         *)
(*   "rtree" dict {"id", "dist_km", "Restaurant_ID", ...}                  *)
(*   "rec"   the ISAM Record object                                        *)
(***************************************************************************)
NoEngine == [none |-> TRUE]
IsNone(e) == DOMAIN e = {"none"}

Row(kind, row) == [kind |-> kind, row |-> row]

Tag(kind, rows) == [i \in 1..Len(rows) |-> Row(kind, rows[i])]

\* the dict given to hash.add; key "Restaurant ID" is field Restaurant_ID
hash_row(record) ==
  [Restaurant_ID |-> record.restaurant_id, Name |-> record.name,
   City |-> record.city, Rating |-> record.aggregate_rating,
   Longitude |-> record.longitude, Latitude |-> record.latitude]

rtree_payload(record) ==
  [Restaurant_ID |-> record.restaurant_id, Restaurant_Name |-> record.name,
   City |-> record.city, Aggregate_rating |-> record.aggregate_rating]

\* Fault variants: each stands in for one operation of the manager, to show
\* that the properties below depend on what that operation does.
id_never_exists(m, rid) == FALSE

insert_every_engine(m, record) ==
  [m |-> [isam |-> ISAM_insert(m.isam, record),
          hash |-> IF IsNone(m.hash) THEN m.hash
                   ELSE Hash_add(m.hash, record.restaurant_id, hash_row(record)),
          rtree |-> IF IsNone(m.rtree) THEN m.rtree
                    ELSE RTree_add_point(m.rtree, record.longitude, record.latitude,
                                         rtree_payload(record)),
          avl |-> IF IsNone(m.avl) THEN m.avl ELSE AVL_insert(m.avl, record),
          bpt |-> BPT_insert(m.bpt, record.restaurant_id, record.name)],
   ok |-> ~IsNone(m.hash) /\ ~IsNone(m.rtree) /\ ~IsNone(m.avl)]

\* _to_int: int(value), 0 when the value is missing
to_int(value) == IF value = NoneId THEN 0 ELSE value

\* _id_exists: B+Tree, then Hash, then AVL; an engine that is None raises
\* inside its try and is skipped
\* a uniqueness probe that asks the B+Tree only
id_exists_bpt_only(m, rid) == BPT_search(m.bpt, rid).found

id_exists(m, rid) ==
  \/ BPT_search(m.bpt, rid).found
  \/ (~IsNone(m.hash) /\ Hash_search(m.hash, rid).found)
  \/ (~IsNone(m.avl) /\ AVL_search(m.avl, rid).found)

\* IndexManager.insert: ISAM, HASH, RTREE, AVL, B+TREE in one try; the
\* first engine that is None raises and ends the insert with False
insert(m, record) ==
  IF id_exists(m, record.restaurant_id) THEN [m |-> m, ok |-> FALSE]
  ELSE With([m EXCEPT !.isam = ISAM_insert(m.isam, record)], LAMBDA m1 :
         IF IsNone(m1.hash) THEN [m |-> m1, ok |-> FALSE]
         ELSE With([m1 EXCEPT !.hash =
                      Hash_add(m1.hash, record.restaurant_id, hash_row(record))],
                   LAMBDA m2 :
           IF IsNone(m2.rtree) THEN [m |-> m2, ok |-> FALSE]
           ELSE With([m2 EXCEPT !.rtree =
                        RTree_add_point(m2.rtree, record.longitude,
                          record.latitude, rtree_payload(record))], LAMBDA m3 :
             IF IsNone(m3.avl) THEN [m |-> m3, ok |-> FALSE]
             ELSE [m |-> [m3 EXCEPT
                     !.avl = AVL_insert(m3.avl, record),
                     !.bpt = BPT_insert(m3.bpt, record.restaurant_id,
                                        record.name)],
                   ok |-> TRUE])))

\* IndexManager.insert_full: the Record is built from the dict (a missing
\* "Restaurant ID" becomes 0), a known id is rejected, otherwise insert()
\* runs; ok tells whether the row went on to the base CSV
insert_full(m, record_dict) ==
  With([record_dict EXCEPT !.restaurant_id = to_int(record_dict.restaurant_id)],
       LAMBDA rec :
    IF id_exists(m, rec.restaurant_id) THEN [m |-> m, ok |-> FALSE]
    ELSE insert(m, rec))

\* IndexManager.search_by_name.  With a city the result is what
\* ISAM.search returns: None, or the pair (off, rec) -- shape "pair";
\* without one it is the list of the records of every page of the data
\* file whose normalised name matches -- shape "list".
search_by_name(m, name, city) ==
  IF str_strip(city) # <<>>
  THEN With(ISAM_search(m.isam, str_strip(name), str_strip(city), NoneId),
            LAMBDA r :
         IF r.found THEN [shape |-> "pair", off |-> r.off, rec |-> r.rec]
         ELSE [shape |-> "none"])
  ELSE [shape |-> "list",
        rows |-> SelectSeq(all_page_records(m.isam.data),
                   LAMBDA rec : normalize_text(rec.name)
                                  = normalize_text(str_strip(name)))]

\* the rows of a search_by_name result that carry a record
name_rows(res) ==
  CASE res.shape = "pair" -> <<res.rec>>
    [] res.shape = "list" -> res.rows
    [] OTHER -> <<>>

search_comparison(m, attr, op, value) ==
  IF IsNone(m.avl) THEN <<>>
  ELSE Tag("avl", AVL_search_comparison(m.avl, attr, op, value))

search_range_id(m, begin_id, end_id) ==
  With(BPT_range_search(m.bpt, begin_id, end_id), LAMBDA pairs :
    [i \in 1..Len(pairs) |->
       Row("bpt", [restaurant_id |-> pairs[i].k, restaurant_name |-> pairs[i].v])])

\* "id" in attr decides between the B+Tree range and the AVL scan
has_id(attr) ==
  attr \in {"id", "restaurant_id", "Restaurant ID", "restaurantid"}

search_between_general(m, attr, low, high) ==
  IF has_id(attr) THEN search_range_id(m, low, high)
  ELSE IF IsNone(m.avl) THEN <<>>
  ELSE Tag("avl", AVL_search_between(m.avl, attr, low, high))

\* search_by_id: AVL, then B+Tree, then Hash
search_by_id(m, restaurant_id) ==
  With(IF IsNone(m.avl) THEN [found |-> FALSE]
       ELSE AVL_search(m.avl, restaurant_id), LAMBDA rec :
    IF rec.found THEN <<Row("avl", rec.rec)>>
    ELSE With(BPT_search(m.bpt, restaurant_id), LAMBDA name :
      IF name.found
      THEN <<Row("bpt", [restaurant_id |-> restaurant_id,
                         restaurant_name |-> name.value])>>
      ELSE With(IF IsNone(m.hash) THEN [found |-> FALSE]
                ELSE Hash_search(m.hash, restaurant_id), LAMBDA row :
        IF row.found THEN <<Row("hash", row.value)>> ELSE <<>>)))

\* search_near: the rows of range_search_km, [] when the R-Tree is None
search_near(m, point, radio_m) ==
  IF IsNone(m.rtree) THEN {}
  ELSE {Row("rtree", r) : r \in RTree_range_search_km(m.rtree, point, radio_m)}

\* the per-id fan-out of delete: each engine in its own try
delete_one(m, name, city, rid) ==
  [isam |-> ISAM_delete(m.isam, name, city, rid).isam,
   hash |-> IF IsNone(m.hash) THEN m.hash ELSE Hash_remove(m.hash, rid),
   rtree |-> IF IsNone(m.rtree) THEN m.rtree
             ELSE RTree_remove_point_by_id(m.rtree, rid),
   avl |-> IF IsNone(m.avl) THEN m.avl ELSE AVL_remove(m.avl, rid),
   bpt |-> BPT_remove(m.bpt, rid)]

RECURSIVE delete_ids(_, _, _, _)
delete_ids(m, name, city, ids) ==
  IF ids = <<>> THEN m
  ELSE delete_ids(delete_one(m, name, city, ids[1]), name, city, Drop(ids, 1))

\* IndexManager.delete.  restaurant_id is NoneId when the argument is left
\* out; `if restaurant_id` is false for None and for 0, and then the ids
\* are read off search_by_name(name, city): a list gives the ids of its
\* records, None gives no id, and the pair (off, rec) raises
\* AttributeError on its first element, an int.
delete(m, name, city, restaurant_id) ==
  IF restaurant_id # NoneId /\ restaurant_id # 0
  THEN [m |-> delete_ids(m, name, city, <<restaurant_id>>), raised |-> FALSE]
  ELSE With(search_by_name(m, name, city), LAMBDA res :
         IF res.shape = "pair" THEN [m |-> m, raised |-> TRUE]
         ELSE [m |-> delete_ids(m, name, city,
                       [i \in 1..Len(name_rows(res)) |->
                          name_rows(res)[i].restaurant_id]),
               raised |-> FALSE])

\* one engine after another as build_from_csv fills it
RECURSIVE hash_add_all(_, _)
hash_add_all(h, recs) ==
  IF recs = <<>> THEN h
  ELSE hash_add_all(Hash_add(h, recs[1].restaurant_id, hash_row(recs[1])),
                    Drop(recs, 1))

RECURSIVE rtree_add_all(_, _)
rtree_add_all(t, recs) ==
  IF recs = <<>> THEN t
  ELSE rtree_add_all(RTree_add_point(t, recs[1].longitude, recs[1].latitude,
                                     rtree_payload(recs[1])), Drop(recs, 1))

RECURSIVE avl_insert_all(_, _)
avl_insert_all(t, recs) ==
  IF recs = <<>> THEN t
  ELSE avl_insert_all(AVL_insert(t, recs[1]), Drop(recs, 1))

\* the B+Tree is filled from BPRecord.load_from_csv: ids in file order,
\* the names stripped
RECURSIVE bpt_insert_all(_, _)
bpt_insert_all(t, rows) ==
  IF rows = <<>> THEN t
  ELSE bpt_insert_all(BPT_insert(t, rows[1].restaurant_id, str_strip(rows[1].name)),
                      Drop(rows, 1))

\* build_from_csv(csv, limit) with using_indexes left out: all five
\* engines are rebuilt from the first limit rows (every row when limit is
\* 0 or None).  ISAM.build sorts the list in place, so the engines built
\* after it receive the rows in key order.
build_one_row_short(rows, limit) ==
  LET recs == IF limit # 0 THEN Take(rows, limit - 1) ELSE Take(rows, Len(rows) - 1)
  IN [isam |-> ISAM_build(recs),
      hash |-> hash_add_all(NewHash, sort_records(recs)),
      rtree |-> rtree_add_all(NewRTree, sort_records(recs)),
      avl |-> avl_insert_all(EmptyAVL, sort_records(recs)),
      bpt |-> bpt_insert_all(NewBPT, recs)]

build_from_csv(rows, limit) ==
  LET recs == IF limit # 0 THEN Take(rows, limit) ELSE rows
      sorted == sort_records(recs)
  IN [isam |-> ISAM_build(recs),
      hash |-> hash_add_all(NewHash, sorted),
      rtree |-> rtree_add_all(NewRTree, sorted),
      avl |-> avl_insert_all(EmptyAVL, sorted),
      bpt |-> bpt_insert_all(NewBPT, recs)]

\* build_from_csv(csv, limit, using_indexes) on manager m: only the engines
\* named are rebuilt, the others stay as m has them.  The rows reach the
\* engines after the ISAM in key order only when the ISAM was built.
build_using(m, rows, limit, using_indexes) ==
  With(IF limit # 0 THEN Take(rows, limit) ELSE rows, LAMBDA recs :
  With(IF "ISAM" \in using_indexes THEN sort_records(recs) ELSE recs, LAMBDA after :
    [isam |-> IF "ISAM" \in using_indexes THEN ISAM_build(recs) ELSE m.isam,
     hash |-> IF "HASH" \in using_indexes THEN hash_add_all(NewHash, after)
              ELSE m.hash,
     rtree |-> IF "RTREE" \in using_indexes THEN rtree_add_all(NewRTree, after)
               ELSE m.rtree,
     avl |-> IF "AVL" \in using_indexes THEN avl_insert_all(EmptyAVL, after)
             ELSE m.avl,
     bpt |-> IF "BTREE" \in using_indexes THEN bpt_insert_all(NewBPT, recs)
             ELSE m.bpt]))

\* IndexManager.close followed by IndexManager.__init__ on the same
\* directory: every engine is read back from its files.  The ISAM index
\* takes its last node as root, the R-Tree restarts its point ids after
\* the largest one kept, an engine without files stays None.
reopen_without_root(m) == [m EXCEPT !.isam.index.root_off = NIL]

reopen(m) ==
  [isam |-> [m.isam EXCEPT !.index.root_off =
               IF m.isam.index.nodes = <<>> THEN NIL
               ELSE Len(m.isam.index.nodes) - 1],
   hash |-> m.hash,
   avl |-> m.avl,
   bpt |-> m.bpt,
   rtree |-> IF IsNone(m.rtree) THEN m.rtree
             ELSE [m.rtree EXCEPT !.next_id =
                     IF m.rtree.rows = {} THEN 0
                     ELSE SetMax({r.pid : r \in m.rtree.rows}) + 1]]

(***************************************************************************)
(* Conditions of the planner (ast_nodes.py) and the values Python hands    *)
(* around.  A ConditionNode is [type |-> "cond", attribute, operator,      *)
(* value], a BetweenConditionNode [type |-> "between", attribute, value1,  *)
(* value2], a SelectSpatialNode [type |-> "spatial", column, point,        *)
(* radius] and a ConditionComplexNode [type |-> "complex", operator, left, *)
(* right].  A literal is a number, kept in thousandths, or a text.  A      *)
(* result is a list of rows, the pair (off, rec) of ISAM.search, or None.  *)
(***************************************************************************)
Num(milli) == [kind |-> "num", milli |-> milli]
Txt(t) == [kind |-> "text", t |-> t]
NoValue == [kind |-> "none"]

ConditionNode(attribute, operator, value) ==
  [type |-> "cond", attribute |-> attribute, operator |-> operator, value |-> value]

BetweenConditionNode(attribute, value1, value2) ==
  [type |-> "between", attribute |-> attribute, value1 |-> value1, value2 |-> value2]

SelectSpatialNode(column, point, radius) ==
  [type |-> "spatial", column |-> column, point |-> point, radius |-> radius]

ConditionComplexNode(left, operator, right) ==
  [type |-> "complex", operator |-> operator, left |-> left, right |-> right]

PyList(rows) == [shape |-> "list", rows |-> rows]
PyNone == [shape |-> "none", rows |-> <<>>]
\* the tuple (off, rec): its elements are an int and a Record
PyPair(off, rec) == [shape |-> "pair", rows |-> <<Row("int", off), Row("rec", rec)>>]

\* the value search_by_name hands to the planner
py_of_name(res) ==
  CASE res.shape = "pair" -> PyPair(res.off, res.rec)
    [] res.shape = "list" -> PyList(Tag("rec", res.rows))
    [] OTHER -> PyNone

\* int(val) and float(val) raise on a text that is no numeral (the texts
\* of the model hold letters only) and on None
py_number_ok(val) == val.kind = "num"

py_int(val) == val.milli \div 1000

\* float(val) in the unit the model keeps the attribute in: thousandths
\* for ratings and coordinates, units for the whole-number fields (whose
\* literals are whole numbers)
py_float(attr, val) ==
  IF avl_normalize_attr(attr) \in {"aggregate_rating", "longitude", "latitude"}
  THEN val.milli
  ELSE val.milli \div 1000

\* the rows of search_near in the order of range_search_km: by distance
RECURSIVE near_rows(_)
near_rows(S) ==
  IF S = {} THEN <<>>
  ELSE LET r == CHOOSE x \in S :
                  \A y \in S : \/ x.row.dist_km < y.row.dist_km
                               \/ (x.row.dist_km = y.row.dist_km /\ x.row.id <= y.row.id)
       IN <<r>> \o near_rows(S \ {r})

\* getattr(cond, "attribute", "").lower(), getattr(cond, "operator", "=")
\* and getattr(cond, "value", None) of force_search
cond_attribute(cond) == IF cond.type \in {"cond", "between"} THEN cond.attribute ELSE ""
cond_operator(cond) == IF cond.type \in {"cond", "complex"} THEN cond.operator ELSE "="
cond_value(cond) == IF cond.type = "cond" THEN cond.value ELSE NoValue

textual_fields == {"name", "city"}
numeric_fields == {"rating", "aggregate_rating", "votes", "average_cost_for_two"}
spatial_fields == {"coords", "longitude", "latitude"}

\* IndexManager.force_search.  ran tells whether a search primitive of an
\* engine was called on the way.
force_search(m, forced, cond) ==
  LET attr == cond_attribute(cond)
      op == cond_operator(cond)
      val == cond_value(cond)
      Error == [status |-> "error", results |-> PyList(<<>>), ran |-> FALSE]
      Success(res, ran) == [status |-> "success", results |-> res, ran |-> ran]
  IN CASE forced = "AVL" /\ attr \notin numeric_fields -> Error
       [] forced = "ISAM" /\ attr \notin textual_fields -> Error
       [] forced = "HASH" /\ ~has_id(attr) -> Error
       [] forced = "RTREE" /\ attr \notin spatial_fields -> Error
       [] OTHER ->
          CASE forced = "ISAM" ->
                 IF val.kind # "text" THEN Error
                 ELSE Success(py_of_name(search_by_name(m,
                                IF attr = "name" THEN val.t ELSE <<>>,
                                IF attr = "city" THEN val.t ELSE <<>>)), TRUE)
            [] forced = "AVL" ->
                 IF ~py_number_ok(val) THEN Error
                 ELSE Success(PyList(search_comparison(m, attr, op, py_float(attr, val))),
                              ~IsNone(m.avl))
            [] forced = "HASH" ->
                 IF ~py_number_ok(val) \/ IsNone(m.hash) THEN Error
                 ELSE LET result == Hash_search(m.hash, py_int(val))
                      IN IF ~result.found THEN Success(PyList(<<>>), TRUE)
                         ELSE LET full_info == search_by_id(m, result.value.Restaurant_ID)
                              IN Success(PyList(IF full_info # <<>> THEN full_info
                                                ELSE <<Row("hash", result.value)>>), TRUE)
            [] forced = "RTREE" ->
                 IF cond.type = "spatial"
                 THEN Success(PyList(near_rows(search_near(m, cond.point, cond.radius))),
                              ~IsNone(m.rtree))
                 ELSE Error
            [] forced = "BTREE" ->
                 IF ~py_number_ok(val) THEN Error
                 ELSE LET value == BPT_search(m.bpt, py_int(val))
                      IN IF ~value.found THEN Success(PyList(<<>>), TRUE)
                         ELSE LET full == search_by_id(m, py_int(val))
                              IN Success(PyList(IF full # <<>> THEN full
                                   ELSE <<Row("bpt", [restaurant_id |-> py_int(val),
                                                      restaurant_name |-> value.value])>>),
                                         TRUE)
            [] OTHER -> [status |-> "warning", results |-> PyList(<<>>), ran |-> FALSE]

\* extract_id of _evaluate_condition: dict.get('restaurant_id') -- the
\* dicts of the Hash ("Restaurant ID") and of the R-Tree ("Restaurant_ID")
\* have no such key --, record[0] for a tuple, the attribute of a Record,
\* None for anything else
extract_id(r) ==
  CASE r.kind \in {"avl", "bpt"} -> r.row.restaurant_id
    [] r.kind = "rec" -> r.row.restaurant_id
    [] OTHER -> NoneId

extracted_ids(rows) ==
  {extract_id(rows[i]) : i \in 1..Len(rows)} \ {NoneId}

\* all_results[rid] = r over left_results + right_results: the last row
\* with that id
last_with_id(rows, rid) ==
  rows[SetMax({i \in 1..Len(rows) : extract_id(rows[i]) = rid})]

RECURSIVE rows_by_ids(_, _)
rows_by_ids(rows, ids) ==
  IF ids = {} THEN <<>>
  ELSE <<last_with_id(rows, SetMin(ids))>> \o rows_by_ids(rows, ids \ {SetMin(ids)})

\* the values of the dict all_results, in the order their keys came in
first_seen_ids(rows) ==
  LET idx == {i \in 1..Len(rows) :
                /\ extract_id(rows[i]) # NoneId
                /\ \A j \in 1..(i - 1) : extract_id(rows[j]) # extract_id(rows[i])}
      RECURSIVE walk(_)
      walk(S) == IF S = {} THEN <<>>
                 ELSE <<last_with_id(rows, extract_id(rows[SetMin(S)]))>>
                        \o walk(S \ {SetMin(S)})
  IN walk(idx)

Raised == [raised |-> TRUE, val |-> PyNone]
Returned(val) == [raised |-> FALSE, val |-> val]

\* the ConditionComplexNode branch: None is not iterable, and a tuple and
\* a list cannot be added
combine(operator, left_results, right_results) ==
  IF left_results.shape = "none" \/ right_results.shape = "none" THEN Raised
  ELSE IF operator \notin {"AND", "OR"} THEN Returned(PyList(<<>>))
  ELSE IF left_results.shape # right_results.shape THEN Raised
  ELSE LET both == left_results.rows \o right_results.rows
       IN IF operator = "AND"
          THEN Returned(PyList(rows_by_ids(both,
                 extracted_ids(left_results.rows) \cap extracted_ids(right_results.rows))))
          ELSE Returned(PyList(first_seen_ids(both)))

\* the ConditionNode branch
evaluate_simple(m, cond) ==
  LET attr == cond.attribute
      val == cond.value
  IN CASE attr \in {"name", "city"} ->
            IF val.kind # "text" THEN Raised
            ELSE Returned(py_of_name(search_by_name(m,
                            IF attr = "name" THEN str_strip(val.t) ELSE <<>>,
                            IF attr = "city" THEN str_strip(val.t) ELSE <<>>)))
       [] attr \in {"rating", "votes", "average_cost_for_two"} ->
            IF ~py_number_ok(val) THEN Returned(PyList(<<>>))
            ELSE Returned(PyList(search_comparison(m, attr, cond.operator,
                                                   py_float(attr, val))))
       [] has_id(attr) ->
            IF ~py_number_ok(val) THEN Returned(PyList(<<>>))
            ELSE LET rid == py_int(val)
                     res == search_by_id(m, rid)
                 IN IF res # <<>> THEN Returned(PyList(res))
                    ELSE IF IsNone(m.hash) THEN Returned(PyList(<<>>))
                    ELSE IF Hash_search(m.hash, rid).found
                    THEN Returned(PyList(<<Row("hash", Hash_search(m.hash, rid).value)>>))
                    ELSE IF BPT_search(m.bpt, rid).found
                            /\ BPT_search(m.bpt, rid).value # <<>>
                    THEN Returned(PyList(<<Row("bpt",
                           [restaurant_id |-> rid,
                            restaurant_name |-> BPT_search(m.bpt, rid).value])>>))
                    ELSE Returned(PyList(<<>>))
       [] OTHER -> Returned(PyList(<<>>))

\* QueryEngine._evaluate_condition with index_manager.forced_index =
\* forced ("None" for None).  The attributes of the sequential text scan
\* (cuisines, address, ...) are none of the attributes the model issues.
RECURSIVE evaluate_condition(_, _, _)
evaluate_condition(m, forced, cond) ==
  IF cond.type = "complex"
  THEN LET left_results == evaluate_condition(m, forced, cond.left)
           right_results == evaluate_condition(m, forced, cond.right)
       IN IF left_results.raised \/ right_results.raised THEN Raised
          ELSE combine(cond.operator, left_results.val, right_results.val)
  ELSE IF forced # "None"
  THEN LET res == force_search(m, forced, cond)
       IN IF res.status # "success" THEN Returned(PyList(<<>>))
          ELSE Returned(res.results)
  ELSE CASE cond.type = "spatial" ->
              Returned(PyList(near_rows(search_near(m, cond.point, cond.radius))))
         [] cond.type = "cond" -> evaluate_simple(m, cond)
         [] cond.type = "between" ->
              IF py_number_ok(cond.value1) /\ py_number_ok(cond.value2)
              THEN Returned(PyList(search_between_general(m, cond.attribute,
                              py_float(cond.attribute, cond.value1),
                              py_float(cond.attribute, cond.value2))))
              ELSE Returned(PyList(<<>>))
         [] OTHER -> Returned(PyList(<<>>))

\* getattr(rec, attr_name, "") for the text columns the records of the
\* model keep
text_field(rec, attr_name) ==
  CASE attr_name = "name" -> rec.name
    [] attr_name = "city" -> rec.city
    [] OTHER -> <<>>

\* IndexManager.search_text.  Code 30 is the character %.  With LIKE and a
\* % in the value the pages of the ISAM file are scanned; re.escape leaves
\* % as it is, so the pattern matches the normalised text literally.  With
\* any other operator the method goes on to build the five engine objects
\* again -- the ISAM, AVL and R-Tree from their files, the hash in the
\* directory data/hash, the B+Tree on the default files of its module,
\* both new -- and returns None.
search_text(m, field, value, op) ==
  With(IF field = "restaurant_name" THEN "name" ELSE field, LAMBDA attr_name :
  With(normalize_text(value), LAMBDA valn :
    IF op = "LIKE" /\ 30 \in Range(valn)
    THEN [m |-> m,
          result |-> PyList(Tag("rec",
             SelectSeq(all_page_records(m.isam.data),
                LAMBDA rec : normalize_text(text_field(rec, attr_name)) = valn)))]
    ELSE [m |-> [isam |-> reopen(m).isam,
                 hash |-> NewHash,
                 rtree |-> IF IsNone(m.rtree) THEN NewRTree ELSE reopen(m).rtree,
                 avl |-> IF IsNone(m.avl) THEN EmptyAVL ELSE m.avl,
                 bpt |-> NewBPT],
          result |-> PyNone]))

(***************************************************************************)
(* The source file and the calls the model issues.                         *)
(*   names  A..H are one upper-case letter, cities X and Y;                *)
(*   ratings, longitudes and latitudes in thousandths.                     *)
(***************************************************************************)
Rec(id, name, city, rating, votes, cost, lon, lat) ==
  [restaurant_id |-> id, name |-> name, city |-> city,
   aggregate_rating |-> rating, votes |-> votes, avg_cost_for_two |-> cost,
   longitude |-> lon, latitude |-> lat]

CityX == <<8>>
CityY == <<9>>

\* the rows of Dataset.csv, in file order
SourceRows ==
  << Rec(3, <<2>>, CityX, 4500, 30, 300, 121030, 14560),
     Rec(1, <<1>>, CityX, 4800, 10, 100, 121020, 14550),
     Rec(2, <<1>>, CityX, 3900, 20, 200, 121020, 14550),
     Rec(5, <<4>>, CityX, 4000, 50, 500, 121500, 14550),
     Rec(4, <<3>>, CityY, 4300, 40, 400, 121030, 14560),
     Rec(7, <<6>>, CityX, 3500, 70, 700, 121500, 14550),
     Rec(6, <<5>>, CityY, 4400, 60, 600, 121020, 14550),
     Rec(8, <<7>>, CityX, 4500, 80, 800, 121030, 14560),
     Rec(9, <<8>>, CityY, 4800, 90, 900, 121500, 14550) >>

\* a row whose "Restaurant ID" column is missing
RowNoId == Rec(NoneId, <<4>>, CityY, 4000, 5, 50, 121020, 14550)

\* the dicts handed to insert_full
InsertRows == {SourceRows[9], RowNoId}

\* the limit arguments of build_from_csv: the first eight rows, or all
BuildLimits == {8, 0}

\* how many insert_full calls follow a build
MaxInserts == 2

\* the ids of the records in the ISAM data file whose name and city are
\* the given ones, up to normalize_text
ids_of_name_city(m, name, city) ==
  {rec.restaurant_id : rec \in
     {r \in Range(all_page_records(m.isam.data)) :
        /\ normalize_text(r.name) = normalize_text(name)
        /\ normalize_text(r.city) = normalize_text(city)}}

Mgr == [isam |-> isam, hash |-> hash, avl |-> avl, bpt |-> bpt, rtree |-> rtree]

SetMgr(m) ==
  /\ isam' = m.isam
  /\ hash' = m.hash
  /\ avl' = m.avl
  /\ bpt' = m.bpt
  /\ rtree' = m.rtree

\* IndexManager() on an empty data directory: ISAM without pages, a new
\* empty B+Tree, no Hash, AVL or R-Tree
Init ==
  /\ isam = EmptyISAM
  /\ hash = NoEngine
  /\ avl = NoEngine
  /\ bpt = NewBPT
  /\ rtree = NoEngine
  /\ forced_index = "None"
  /\ hist = [full |-> {}, last |-> [op |-> "init"]]
  /\ ninserts = 0
  /\ table = NoTable

\* rebuild_from_csv / build_from_csv with every engine
Build(limit) ==
  /\ SetMgr(build_from_csv(SourceRows, limit))
  /\ hist' = [full |-> {}, last |-> [op |-> "build", limit |-> limit]]
  /\ ninserts' = 0
  /\ UNCHANGED <<forced_index, table>>

\* insert_full(record_dict), also what the planner's INSERT runs
InsertFull(d) ==
  /\ ninserts < MaxInserts
  /\ LET r == insert_full(Mgr, d)
         id == to_int(d.restaurant_id)
     IN /\ SetMgr(r.m)
        /\ hist' = [full |-> IF r.ok THEN hist.full \cup {id} ELSE hist.full,
                    last |-> [op |-> "insert_full", id |-> id, ok |-> r.ok,
                              known |-> id \in hist.full]]
  /\ ninserts' = ninserts + 1
  /\ UNCHANGED <<forced_index, table>>

\* delete(name, city, restaurant_id) for the fields of a record
Delete(rec) ==
  /\ LET r == delete(Mgr, rec.name, rec.city, rec.restaurant_id)
     IN /\ SetMgr(r.m)
        /\ hist' = [full |-> hist.full \ {rec.restaurant_id},
                    last |-> [op |-> "delete", id |-> rec.restaurant_id,
                              raised |-> r.raised,
                              present |-> search_by_id(Mgr, rec.restaurant_id) # <<>>]]
  /\ UNCHANGED <<forced_index, ninserts, table>>

\* delete(name, city) without an id
DeleteByName(name, city) ==
  /\ LET r == delete(Mgr, name, city, NoneId)
     IN /\ SetMgr(r.m)
        /\ hist' = [full |-> IF r.raised THEN hist.full
                             ELSE hist.full \ {rec.restaurant_id :
                                    rec \in Range(name_rows(
                                       search_by_name(Mgr, name, city)))},
                    last |-> [op |-> "delete_by_name", name |-> name,
                              city |-> city, raised |-> r.raised,
                              matched |-> ids_of_name_city(Mgr, name, city)]]
  /\ UNCHANGED <<forced_index, ninserts, table>>

\* the planner's DELETE ... WHERE restaurant_id = rid:
\* index_manager.delete(restaurant_id=rid), name and city left empty
PlannerDelete(rid) ==
  /\ SetMgr(delete(Mgr, <<>>, <<>>, rid).m)
  /\ hist' = [full |-> hist.full \ {rid},
              last |-> [op |-> "planner_delete", id |-> rid]]
  /\ UNCHANGED <<forced_index, ninserts, table>>

\* close() and a new IndexManager on the same directory
Reopen ==
  /\ SetMgr(reopen(Mgr))
  /\ hist' = [hist EXCEPT !.last = [op |-> "reopen"]]
  /\ UNCHANGED <<forced_index, ninserts, table>>

\* the records named in delete(name, city, id) calls
DeleteRecs == {SourceRows[9], [RowNoId EXCEPT !.restaurant_id = 0]}

\* the (name, city) pairs of delete calls without an id
DeleteNames == {<<SourceRows[2].name, SourceRows[2].city>>,
                <<SourceRows[9].name, <<>> >>}

\* the ids of the planner's DELETE statements
PlannerDeleteIds == {SourceRows[9].restaurant_id}

Next ==
  \/ \E limit \in BuildLimits : Build(limit)
  \/ \E d \in InsertRows : InsertFull(d)
  \/ \E rec \in DeleteRecs : Delete(rec)
  \/ \E nc \in DeleteNames : DeleteByName(nc[1], nc[2])
  \/ \E rid \in PlannerDeleteIds : PlannerDelete(rid)
  \/ Reopen

Spec == Init /\ [][Next]_vars

(***************************************************************************)
(* What a caller can observe of a manager: the answers of every search.    *)
(***************************************************************************)
QueryIds == 0..10
QueryNames == {SourceRows[i].name : i \in 1..Len(SourceRows)} \cup {RowNoId.name}
QueryCities == {CityX, CityY, <<>>}
QueryRanges == {<<0, 10>>, <<2, 6>>, <<9, 9>>}
QueryNumeric == {<<"rating", ">=", 4500>>, <<"rating", "=", 4800>>,
                 <<"votes", "<", 50>>, <<"votes", ">=", 5>>,
                 <<"average_cost_for_two", "<=", 900>>}
QueryPoints == {<<121020, 14550>>, <<121500, 14550>>}
QueryRadii == {3000, 60000}

Observe(m) ==
  [by_id |-> [id \in QueryIds |-> search_by_id(m, id)],
   by_name |-> [nc \in QueryNames \X QueryCities |-> search_by_name(m, nc[1], nc[2])],
   by_range |-> [q \in QueryRanges |-> search_range_id(m, q[1], q[2])],
   by_number |-> [q \in QueryNumeric |-> search_comparison(m, q[1], q[2], q[3])],
   by_point |-> [q \in QueryPoints \X QueryRadii |-> search_near(m, q[1], q[2])]]

\* C1: once insert_full has fully inserted a record with some restaurant_id
\* (and no delete was issued for that id since), a second insert_full with
\* the same id is rejected and leaves every engine as it was: the manager
\* is unchanged and every search answers as before the call.
C1_DuplicateInsertChangesNothing ==
  \A d \in InsertRows :
    to_int(d.restaurant_id) \in hist.full =>
      LET r == insert_full(Mgr, d)
      IN ~r.ok /\ r.m = Mgr /\ Observe(r.m) = Observe(Mgr)

\* a second insert_full of an id that insert_full had fully inserted
C1_Witness ==
  hist.last.op = "insert_full" /\ hist.last.known /\ ~hist.last.ok

\* the rows each engine answers with, as ids
isam_ids(m) ==
  [i \in 1..Len(all_page_records(m.isam.data)) |->
     all_page_records(m.isam.data)[i].restaurant_id]

Count(s, x) == Cardinality({i \in 1..Len(s) : s[i] = x})

\* C2: after any sequence of insert_full and delete calls (direct or through
\* the planner), no engine answers with more than one row of the same
\* restaurant_id: not the ISAM name scan, not the hash buckets in the
\* directory, not the R-Tree rows, not the AVL in-order scan, not the
\* B+Tree leaf chain.  Stated for managers whose five engines exist (a
\* build was run), where every insert reaches every engine.
AllEnginesPresent(m) == ~IsNone(m.hash) /\ ~IsNone(m.avl) /\ ~IsNone(m.rtree)

C2_NoEngineHoldsAnIdTwice ==
  AllEnginesPresent(Mgr) =>
  \A id \in QueryIds :
    /\ \A name \in QueryNames :
         Cardinality({i \in 1..Len(name_rows(search_by_name(Mgr, name, <<>>))) :
            name_rows(search_by_name(Mgr, name, <<>>))[i].restaurant_id = id}) <= 1
    /\ IsNone(hash) \/
         Cardinality({<<b, it>> \in Range(hash.directory) \X
                        UNION {hash.buckets[b].items : b \in Range(hash.directory)} :
                        it \in hash.buckets[b].items /\ it.k = id}) <= 1
    /\ IsNone(rtree) \/
         Cardinality({r \in rtree.rows : r.payload.Restaurant_ID = id}) <= 1
    /\ IsNone(avl) \/
         Cardinality({i \in 1..Len(AVL_iter_records(avl)) :
                        AVL_iter_records(avl)[i].restaurant_id = id}) <= 1
    /\ Cardinality({i \in 1..Len(BPT_range_search(bpt, 0, 10)) :
                      BPT_range_search(bpt, 0, 10)[i].k = id}) <= 1

\* the rows a build with this limit takes from the source
Ingested(limit) == IF limit # 0 THEN Take(SourceRows, limit) ELSE SourceRows

FoundAfterBuild(rows) ==
  \A i \in 1..Len(rows) :
    /\ search_by_id(Mgr, rows[i].restaurant_id) # <<>>
    /\ search_by_id(Mgr, rows[i].restaurant_id)[1].row.restaurant_id
         = rows[i].restaurant_id
    /\ search_by_name(Mgr, rows[i].name, rows[i].city).shape = "pair"
    /\ search_by_name(Mgr, rows[i].name, rows[i].city).rec.name = rows[i].name
    /\ search_by_name(Mgr, rows[i].name, rows[i].city).rec.city = rows[i].city

\* C3 as stated: right after a build with all five engines, search_by_id
\* returns a row for every id of the source file and search_by_name(name,
\* city) a row for every (name, city) of the source file.
C3_BuildFindsEverySourceRow ==
  hist.last.op = "build" => FoundAfterBuild(SourceRows)

\* C3 amended: right after a build with all five engines, search_by_id
\* returns a row for every id, and search_by_name(name, city) a row for
\* every (name, city), among the rows the build took from the source: the
\* first limit rows, or every row when limit is 0 or None.
C3_BuildFindsEveryIngestedRow ==
  hist.last.op = "build" => FoundAfterBuild(Ingested(hist.last.limit))

\* a build that stopped at its limit before the end of the source
C3_Witness ==
  /\ hist.last.op = "build"
  /\ hist.last.limit # 0
  /\ hist.last.limit < Len(SourceRows)
  /\ search_by_id(Mgr, SourceRows[1].restaurant_id) # <<>>

\* no lookup of any engine answers with a row of this id
NoEngineReturns(m, id) ==
  /\ \A name \in QueryNames :
       /\ \A rec \in Range(name_rows(search_by_name(m, name, <<>>))) :
            rec.restaurant_id # id
       /\ \A city \in {CityX, CityY} :
            \A rec \in Range(name_rows(search_by_name(m, name, city))) :
              rec.restaurant_id # id
  /\ IsNone(m.hash) \/ ~Hash_search(m.hash, id).found
  /\ \A q \in QueryPoints :
       \A row \in search_near(m, q, 60000) : row.row.payload.Restaurant_ID # id
  /\ IsNone(m.avl) \/ ~AVL_search(m.avl, id).found
  /\ ~BPT_search(m.bpt, id).found

\* C4: after delete(name, city, restaurant_id) for a record that was
\* present, search_by_id(restaurant_id) is empty.
C4_DeletedIdNotFoundById ==
  (hist.last.op = "delete" /\ hist.last.present) =>
     search_by_id(Mgr, hist.last.id) = <<>>

\* C5: after a delete call that carries a restaurant_id -- delete(name,
\* city, id) or the planner's delete(restaurant_id=id) -- on a manager with
\* all five engines, no lookup of any engine returns a row with that id.
C5_DeleteByIdClearsAllEngines ==
  (/\ hist.last.op \in {"delete", "planner_delete"}
   /\ hist.last.id # 0
   /\ AllEnginesPresent(Mgr))
  => NoEngineReturns(Mgr, hist.last.id)

\* C6: after delete(name, city) without an id, on a manager with all five
\* engines, no lookup returns a row of any id whose (name, city) matched.
C6_DeleteByNameClearsAllMatches ==
  (hist.last.op = "delete_by_name" /\ AllEnginesPresent(Mgr)) =>
     \A id \in hist.last.matched : NoEngineReturns(Mgr, id)

\* the searches C7 compares: by id, by name, by name and city, by id range,
\* by numeric comparison
Observe7(m) ==
  [by_id |-> Observe(m).by_id, by_name |-> Observe(m).by_name,
   by_range |-> Observe(m).by_range, by_number |-> Observe(m).by_number]

ReturnedAtMostOnce(m, r) ==
  /\ Len(search_by_id(m, r.restaurant_id)) <= 1
  /\ Count([i \in 1..Len(name_rows(search_by_name(m, r.name, <<>>))) |->
              name_rows(search_by_name(m, r.name, <<>>))[i].restaurant_id],
           r.restaurant_id) <= 1
  /\ Count([i \in 1..Len(search_range_id(m, 0, 10)) |->
              search_range_id(m, 0, 10)[i].row.restaurant_id],
           r.restaurant_id) <= 1
  /\ Count([i \in 1..Len(search_comparison(m, "votes", ">=", 0)) |->
              search_comparison(m, "votes", ">=", 0)[i].row.restaurant_id],
           r.restaurant_id) <= 1

\* C7: from any reachable state with all five engines in which the id of r
\* (not 0) is absent, insert_full(r); delete(r); insert_full(r) ends in a
\* state equivalent to the one after a single insert_full(r): the second
\* insert_full succeeds, every search answers the same, r comes back at
\* most once.
C7_InsertDeleteInsertIsInsert ==
  \A d \in InsertRows :
    (/\ AllEnginesPresent(Mgr)
     /\ d.restaurant_id # NoneId
     /\ NoEngineReturns(Mgr, d.restaurant_id))
    => LET once == insert_full(Mgr, d)
           gone == delete(once.m, d.name, d.city, d.restaurant_id)
           again == insert_full(gone.m, d)
       IN /\ once.ok /\ ~gone.raised /\ again.ok
          /\ Observe7(again.m) = Observe7(once.m)
          /\ ReturnedAtMostOnce(again.m, d)

ForcedIndexes == {"ISAM", "AVL", "HASH", "BTREE", "RTREE"}

CondLiterals == {Num(5000), Num(4500), Txt(SourceRows[2].name), Txt(CityX)}

ForcedConds ==
  {ConditionNode(a, o, v) :
     a \in {"name", "city", "rating", "votes", "restaurant_id", "coords"},
     o \in {"=", ">"}, v \in CondLiterals}
  \cup {SelectSpatialNode("coords", p, r) : p \in QueryPoints, r \in QueryRadii}

\* the admissibility matrix: which index may be forced on which predicate
Admissible(forced, cond) ==
  CASE forced = "ISAM" -> cond.type = "cond" /\ cond.attribute \in {"name", "city"}
    [] forced = "AVL" -> cond.type = "cond" /\ cond.attribute \in
                           {"rating", "aggregate_rating", "votes", "average_cost_for_two"}
    [] forced = "HASH" -> cond.type = "cond" /\ cond.attribute = "restaurant_id"
                            /\ cond.operator = "="
    [] forced = "BTREE" -> cond.type = "cond" /\ cond.attribute = "restaurant_id"
    [] forced = "RTREE" -> cond.type = "spatial"
                             /\ cond.column \in {"coords", "longitude", "latitude"}
    [] OTHER -> FALSE

\* C9: on a built manager, force_search with an (index, predicate) pair
\* outside the admissibility matrix answers status "error" with an empty
\* result list and calls no search primitive of any engine.
C9_InadmissibleForcedSearchIsError ==
  AllEnginesPresent(Mgr) =>
    \A forced \in ForcedIndexes, cond \in ForcedConds :
      ~Admissible(forced, cond) =>
        LET res == force_search(Mgr, forced, cond)
        IN /\ res.status = "error"
           /\ res.results = PyList(<<>>)
           /\ ~res.ran

\* the restaurant id a result row stands for, whatever its shape
RowId(r) ==
  CASE r.kind \in {"avl", "bpt", "rec"} -> r.row.restaurant_id
    [] r.kind = "hash" -> r.row.Restaurant_ID
    [] r.kind = "rtree" -> r.row.payload.Restaurant_ID
    [] OTHER -> NoneId

ResultIds(val) == {RowId(val.rows[i]) : i \in 1..Len(val.rows)} \ {NoneId}

LeafConds ==
  { ConditionNode("name", "=", Txt(SourceRows[2].name)),
    ConditionNode("city", "=", Txt(CityX)),
    ConditionNode("rating", ">", Num(4000)),
    ConditionNode("votes", "<=", Num(30000)),
    ConditionNode("restaurant_id", "=", Num(1000)),
    BetweenConditionNode("restaurant_id", Num(1000), Num(5000)),
    SelectSpatialNode("coords", <<121020, 14550>>, 3000) }

\* L AND R answers exactly the ids that L alone and R alone both answer,
\* each once
AndIsIntersection(m, L, R) ==
  LET l == evaluate_condition(m, "None", L)
      r == evaluate_condition(m, "None", R)
      c == evaluate_condition(m, "None", ConditionComplexNode(L, "AND", R))
  IN /\ ~c.raised
     /\ c.val.shape = "list"
     /\ ResultIds(c.val) = ResultIds(l.val) \cap ResultIds(r.val)
     /\ Len(c.val.rows) = Cardinality(ResultIds(c.val))

\* C10: on a built manager, for any two leaf predicates L and R of a plain
\* SELECT -- served by ISAM, the AVL, the B+Tree/Hash or the R-Tree -- the
\* result of L AND R is exactly the rows whose restaurant_id is in the
\* result of L alone and in the result of R alone, each id once.
C10_AndIsIntersectionOfLeaves ==
  AllEnginesPresent(Mgr) =>
    \A L \in LeafConds, R \in LeafConds : AndIsIntersection(Mgr, L, R)

\* L OR R answers every id that L alone or R alone answers, each once
OrIsUnion(m, L, R) ==
  LET l == evaluate_condition(m, "None", L)
      r == evaluate_condition(m, "None", R)
      c == evaluate_condition(m, "None", ConditionComplexNode(L, "OR", R))
  IN /\ ~c.raised
     /\ c.val.shape = "list"
     /\ ResultIds(c.val) = ResultIds(l.val) \cup ResultIds(r.val)
     /\ Len(c.val.rows) = Cardinality(ResultIds(c.val))

\* C11: on a built manager, for any two leaf predicates L and R of a plain
\* SELECT -- served by ISAM, the AVL, the B+Tree/Hash or the R-Tree -- the
\* result of L OR R holds every row that L alone returns and every row that
\* R alone returns, joined on restaurant_id, each id once.
C11_OrIsUnionOfLeaves ==
  AllEnginesPresent(Mgr) =>
    \A L \in LeafConds, R \in LeafConds : OrIsUnion(Mgr, L, R)

\* the WHERE clauses of the SELECT statements: the leaves, a city no row
\* has, and every AND / OR of two of them
SelectLeaves ==
  LeafConds \cup {ConditionNode("city", "=", Txt(<<5>>))}

SelectConds ==
  SelectLeaves \cup
  {ConditionComplexNode(L, o, R) :
     L \in SelectLeaves, o \in {"AND", "OR"}, R \in SelectLeaves}

\* the USING hints of a SELECT: none, or one of the five indexes
UsingHints == {"None"} \cup ForcedIndexes

\* C12: on a built manager, evaluating the predicate of a SELECT -- simple,
\* BETWEEN, spatial or compound, with or without a USING hint -- never
\* raises: the planner hands back a value for every one of them.
C12_SelectPredicateNeverRaises ==
  AllEnginesPresent(Mgr) =>
    \A forced \in UsingHints, cond \in SelectConds :
      ~evaluate_condition(Mgr, forced, cond).raised

\* the text predicates of SELECT and EXPLAIN ANALYZE statements that
\* search_text serves: (field, value, operator)
TextQueries ==
  {<<f, v, o>> : f \in {"name", "city"},
                 v \in {SourceRows[2].name, CityX, <<11, 30>>},
                 o \in {"=", "LIKE"}}

\* C13: on a built manager a read through search_text, with "=" or with
\* LIKE, leaves the five engines as they were: the manager is the same
\* after it and every later search answers as it did before.
C13_TextSearchIsReadOnly ==
  AllEnginesPresent(Mgr) =>
    \A q \in TextQueries :
      LET r == search_text(Mgr, q[1], q[2], q[3])
      IN r.m = Mgr /\ Observe(r.m) = Observe(Mgr)

(***************************************************************************)
(* The order of the fan-out of insert.                                     *)
(***************************************************************************)
InsertOrder == <<"isam", "hash", "rtree", "avl", "bpt">>

\* the using_indexes lists of the builds: all five engines, and the lists
\* that leave the hash, the R-Tree or the AVL out
UsingLists ==
  { {"ISAM", "HASH", "RTREE", "AVL", "BTREE"},
    {"ISAM", "RTREE", "AVL", "BTREE"},
    {"ISAM", "HASH", "AVL", "BTREE"},
    {"ISAM", "HASH", "RTREE", "BTREE"} }

\* engine e of m holds the record
EngineHolds(m, e, rec) ==
  CASE e = "isam" ->
         ISAM_search(m.isam, rec.name, rec.city, rec.restaurant_id).found
    [] e = "hash" ->
         ~IsNone(m.hash) /\ Hash_search(m.hash, rec.restaurant_id).found
    [] e = "rtree" ->
         ~IsNone(m.rtree)
         /\ \E r \in m.rtree.rows : r.payload.Restaurant_ID = rec.restaurant_id
    [] e = "avl" -> ~IsNone(m.avl) /\ AVL_search(m.avl, rec.restaurant_id).found
    [] e = "bpt" -> BPT_search(m.bpt, rec.restaurant_id).found

\* the place in InsertOrder of the first engine that is None, 6 if none is
FirstRaising(m) ==
  SetMin({i \in 1..5 : IsNone(m[InsertOrder[i]])} \cup {6})

StopsAtFirstRaising(m0, rec) ==
  LET r == insert(m0, rec)
      k == FirstRaising(m0)
  IN /\ r.ok = (k = 6)
     /\ \A i \in 1..5 :
          IF i < k THEN EngineHolds(r.m, InsertOrder[i], rec)
          ELSE r.m[InsertOrder[i]] = m0[InsertOrder[i]]

\* C14: insert of a record whose id no engine knows writes ISAM, hash,
\* R-Tree, AVL, B+Tree in this order and stops at the first engine that
\* raises (an engine that is None): the engines before it hold the record,
\* that engine and the ones after it are as they were.  Checked on every
\* manager a build with a using_indexes list leaves.
C14_InsertStopsAtFirstFailure ==
  \A using \in UsingLists :
    LET m0 == build_using(Mgr, SourceRows, 8, using)
    IN ~id_exists(m0, SourceRows[9].restaurant_id) =>
         StopsAtFirstRaising(m0, SourceRows[9])

\* an insert_full on a manager without hash: the ISAM took the record and
\* the insert stopped there
C14_Witness ==
  /\ hist.last.op = "insert_full"
  /\ ~hist.last.ok
  /\ ~hist.last.known
  /\ IsNone(hash)
  /\ \E d \in InsertRows :
       /\ to_int(d.restaurant_id) = hist.last.id
       /\ ISAM_search(isam, d.name, d.city, hist.last.id).found
       /\ ~BPT_search(bpt, hist.last.id).found

(***************************************************************************)
(* The ISAM file used on its own, as src/ISAM/main.py drives it: build,    *)
(* insert and delete on one ISAM object.  Only isam, hist and ninserts     *)
(* move; hist.live holds the records built or inserted and not deleted,    *)
(* hist.gone the records a delete that returned True removed and no insert *)
(* brought back, hist.twice whether an insert named a live record.         *)
(***************************************************************************)
\* how many records the build calls take from the source file
IsamBuildLimits == {3, 8}

\* the records of the insert calls: two new keys and the key of a record
\* every build stores
IsamInsertRecs ==
  {SourceRows[9],
   Rec(10, <<9>>, CityY, 4100, 15, 150, 121020, 14550),
   SourceRows[2]}

\* the (name, city, id) arguments of the search and delete calls; the last
\* one spells the name of record 1 with an accented lower-case letter
IsamCallArgs ==
  {<<SourceRows[9].name, SourceRows[9].city, 9>>,
   << <<9>>, CityY, 10>>,
   << <<21>>, CityX, 1>>}

\* how many insert calls follow a build
MaxIsamInserts == 3

IsamInit ==
  /\ isam = EmptyISAM
  /\ hash = NoEngine
  /\ avl = NoEngine
  /\ bpt = NewBPT
  /\ rtree = NoEngine
  /\ forced_index = "None"
  /\ hist = [live |-> {}, gone |-> {}, twice |-> FALSE, last |-> [op |-> "init"]]
  /\ ninserts = 0
  /\ table = NoTable

\* isam.build(records)
IsamBuild(limit) ==
  /\ isam' = ISAM_build(Take(SourceRows, limit))
  /\ hist' = [live |-> Range(Take(SourceRows, limit)), gone |-> {},
              twice |-> FALSE,
              last |-> [op |-> "build", limit |-> limit]]
  /\ ninserts' = 0
  /\ UNCHANGED <<hash, avl, bpt, rtree, forced_index, table>>

\* no two records of the data file have the same key
KeysDistinct(im) ==
  LET recs == all_page_records(im.data)
  IN \A i, j \in 1..Len(recs) :
       i # j => KeyCmp(Record_key(recs[i]), Record_key(recs[j])) # 0

\* isam.insert(rec)
IsamInsert(rec) ==
  /\ ninserts < MaxIsamInserts
  /\ isam' = ISAM_insert(isam, rec)
  /\ hist' = [live |-> hist.live \cup {rec},
              gone |-> hist.gone \ {rec},
              twice |-> hist.twice \/ rec \in hist.live,
              last |-> [op |-> "insert", rec |-> rec,
                        dup |-> \E r \in hist.live :
                                  KeyCmp(Record_key(r), Record_key(rec)) = 0,
                        clean |-> KeysDistinct(isam),
                        count |-> Len(all_page_records(isam.data))]]
  /\ ninserts' = ninserts + 1
  /\ UNCHANGED <<hash, avl, bpt, rtree, forced_index, table>>

\* isam.delete(name, city, restaurant_id)
IsamDelete(name, city, restaurant_id) ==
  /\ LET r == ISAM_delete(isam, name, city, restaurant_id)
         target == {x \in hist.live :
                      KeyCmp(Record_key(x),
                             make_key(name, city, restaurant_id)) = 0}
     IN /\ isam' = r.isam
        /\ hist' = [live |-> IF r.ret THEN hist.live \ target ELSE hist.live,
                    gone |-> IF r.ret THEN hist.gone \cup target ELSE hist.gone,
                    twice |-> hist.twice,
                    last |-> [op |-> "delete", name |-> name, city |-> city,
                              id |-> restaurant_id, ret |-> r.ret,
                              found |-> ISAM_search(isam, name, city,
                                                    restaurant_id).found]]
  /\ UNCHANGED <<hash, avl, bpt, rtree, forced_index, ninserts, table>>

IsamNext ==
  \/ \E limit \in IsamBuildLimits : IsamBuild(limit)
  \/ \E rec \in IsamInsertRecs : IsamInsert(rec)
  \/ \E a \in IsamCallArgs : IsamDelete(a[1], a[2], a[3])

IsamSpec == IsamInit /\ [][IsamNext]_vars

\* C15: in every state of the ISAM file, search(name, city, id) finds
\* every record that was built or inserted and has not been deleted.
C15_LiveRecordIsFound ==
  \A r \in hist.live :
    LET res == ISAM_search(isam, r.name, r.city, r.restaurant_id)
    IN res.found /\ KeyCmp(Record_key(res.rec), Record_key(r)) = 0

\* the data pages the leaves of the index point to, left to right
base_pages_in_index_order(im) ==
  IF ~ISAM_has_index(im) THEN <<>>
  ELSE LET leaves == leaves_under(im.index.nodes, im.index.root_off)
       IN Flatten([l \in 1..Len(leaves) |->
                     <<read_node(im.index.nodes, leaves[l]).p0>>
                       \o read_node(im.index.nodes, leaves[l]).ptrs])

FirstKeysNonDecreasing(im) ==
  LET offs == SelectSeq(base_pages_in_index_order(im),
                        LAMBDA o : read_page_at(im.data, o).records # <<>>)
  IN \A i \in 1..Len(offs) - 1 :
       KeyCmp(Page_first_key(read_page_at(im.data, offs[i])),
              Page_first_key(read_page_at(im.data, offs[i + 1]))) <= 0

\* the pages a lookup can reach: the base pages and their overflow chains
reachable_pages(im) ==
  LET offs == base_pages_in_index_order(im)
  IN UNION {Range(chain_offsets(im.data, offs[i])) : i \in 1..Len(offs)}

KeysStrictlyIncreasingInPages(im) ==
  \A o \in reachable_pages(im) :
    LET recs == read_page_at(im.data, o).records
    IN \A i \in 1..Len(recs) - 1 :
         KeyCmp(Record_key(recs[i]), Record_key(recs[i + 1])) < 0

\* C16: in every state of the ISAM file the base pages, in index order,
\* have non-decreasing first keys, and inside every page the keys are
\* strictly increasing.
C16_PagesAreOrdered ==
  FirstKeysNonDecreasing(isam) /\ KeysStrictlyIncreasingInPages(isam)

\* the (begin_key, end_key) pairs of the range_search calls: every key, and
\* the keys from record 3 to record 9
IsamRanges ==
  {<<make_key(<<>>, <<>>, 0), make_key(<<19>>, <<19>>, ID_SENTINEL)>>,
   <<Record_key(SourceRows[1]), Record_key(SourceRows[9])>>}

RangeIsExact(im, live, begin_key, end_key) ==
  LET res == ISAM_range_search(im, begin_key, end_key)
      want == {r \in live : /\ KeyCmp(Record_key(r), begin_key) >= 0
                            /\ KeyCmp(Record_key(r), end_key) <= 0}
  IN /\ {res[i].rec : i \in 1..Len(res)} = want
     /\ Len(res) = Cardinality(want)
     /\ \A i \in 1..Len(res) - 1 :
          KeyCmp(Record_key(res[i].rec), Record_key(res[i + 1].rec)) <= 0

\* C17: range_search(begin_key, end_key) returns exactly the live records
\* with begin_key <= key <= end_key, each once, in non-decreasing key
\* order, overflow pages included.  Stated for the files that hold every
\* key once, so that a record stored twice is not what is counted.
C17_RangeSearchIsExact ==
  KeysDistinct(isam) =>
    \A q \in IsamRanges : RangeIsExact(isam, hist.live, q[1], q[2])

\* record r comes back from one of the lookups of the ISAM file: search
\* with its id, search by name and city alone, the sweep over all pages,
\* or a range_search over every key
ReturnedByLookup(im, r) ==
  \/ ISAM_search(im, r.name, r.city, r.restaurant_id).found
  \/ LET s == ISAM_search(im, r.name, r.city, NoneId)
     IN s.found /\ s.rec.restaurant_id = r.restaurant_id
  \/ LET s == prefix_scan(im.data, normalize_text(r.name), normalize_text(r.city))
     IN s.found /\ s.rec.restaurant_id = r.restaurant_id
  \/ LET res == ISAM_range_search(im, make_key(<<>>, <<>>, 0),
                                  make_key(<<19>>, <<19>>, ID_SENTINEL))
     IN \E i \in 1..Len(res) : res[i].rec.restaurant_id = r.restaurant_id

\* C18: a record for which delete returned True is returned by no lookup
\* until it is inserted again, whatever inserts and deletes of other
\* records follow.  Stated for the histories in which no insert named a
\* record that was live, so that a second stored copy is not what is found.
C18_DeletedRecordStaysGone ==
  ~hist.twice => \A r \in hist.gone : ~ReturnedByLookup(isam, r)

\* how many stored records have the key of rec
copies_of_key(im, rec) ==
  Len(SelectSeq(all_page_records(im.data),
                LAMBDA x : KeyCmp(Record_key(x), Record_key(rec)) = 0))

\* C19: after the insert of a record whose key a stored record has, the
\* file holds one record with that key and as many records as before.
C19_DuplicateKeyOverwrites ==
  (hist.last.op = "insert" /\ hist.last.dup /\ hist.last.clean) =>
    /\ copies_of_key(isam, hist.last.rec) = 1
    /\ Len(all_page_records(isam.data)) = hist.last.count

\* C20: a delete whose arguments search finds a record for returns True.
C20_DeleteMatchesLikeSearch ==
  (hist.last.op = "delete" /\ hist.last.found) => hist.last.ret

(***************************************************************************)
(* The extendible hash used on its own, as test_extendible_hashing.py      *)
(* drives it: a new index with a bucket capacity, then add and remove.     *)
(* Only hash, hist and ninserts move.  hist.map is, per key, the value of  *)
(* the last add not followed by a remove, in the shape search returns it;  *)
(* hist.moved the keys that were stored when a later add split a bucket,   *)
(* hist.gone the keys removed and not added since, hist.back the keys      *)
(* added again after a remove.                                             *)
(***************************************************************************)
\* the bucket_capacity arguments of the constructor
HashCapacities == {1, 2}

\* the integer keys of the add, search and remove calls
HashKeys == {0, 1, 2, 4, 6}

\* the registros added under a key
HashValues == {"a", "b"}

\* the number of bits that spell every key of HashKeys
HashKeyBits == CHOOSE n \in 1..8 :
  /\ \A k \in HashKeys : k < Pow2(n)
  /\ \E k \in HashKeys : k >= Pow2(n - 1)

\* how many add and remove calls a run makes
MaxHashCalls == 4

\* the `while True` loop of add as far as it can be followed: the splits it
\* makes, the index at the last turn seen, and whether it returns.  A full
\* bucket whose local_depth is HashKeyBits or more holds keys, and meets a
\* new key, whose bits from local_depth upward are all 0: the split moves
\* them all to b0 and the next turn of the loop finds the same full bucket
\* one level deeper, and so at every later turn.
RECURSIVE add_loop(_, _)
add_loop(h, key) ==
  LET idx == hash_index(key, h.global_depth)
      bucket == h.buckets[h.directory[idx + 1]]
  IN IF key \in bucket_keys(bucket)
        \/ Cardinality(bucket.items) < h.bucket_capacity
     THEN [returns |-> TRUE, splits |-> <<>>, h |-> h]
     ELSE IF bucket.local_depth >= HashKeyBits
     THEN [returns |-> FALSE, splits |-> <<>>, h |-> h]
     ELSE LET h2 == hash_split_bucket(h, idx)
              rest == add_loop(h2, key)
          IN [returns |-> rest.returns,
              splits |-> <<[local_depth |-> bucket.local_depth,
                            global_depth |-> h.global_depth,
                            before |-> Len(h.directory),
                            after |-> Len(h2.directory)]>> \o rest.splits,
              h |-> rest.h]

\* the depths of an index: its global depth and the local depth of every
\* bucket the directory points to
hash_depths(h) ==
  [global_depth |-> h.global_depth,
   local |-> [i \in 1..Len(h.directory) |-> h.buckets[h.directory[i]].local_depth]]

HashInit ==
  /\ isam = EmptyISAM
  /\ \E capacity \in HashCapacities : hash = NewHashWith(capacity)
  /\ avl = NoEngine
  /\ bpt = NewBPT
  /\ rtree = NoEngine
  /\ forced_index = "None"
  /\ hist = [map |-> [k \in HashKeys |-> [found |-> FALSE]], moved |-> {},
             gone |-> {}, back |-> {},
             last |-> [op |-> "init", returns |-> TRUE]]
  /\ ninserts = 0
  /\ table = NoTable

\* eh.add(registro) with key_selector(registro) = key; a call that does not
\* return leaves the index where the loop was last seen, and nothing follows
HashAdd(key, v) ==
  /\ hist.last.returns
  /\ ninserts < MaxHashCalls
  /\ LET run == add_loop(hash, key)
     IN /\ hash' = IF run.returns THEN Hash_add(hash, key, v) ELSE run.h
        /\ hist' = [map |-> IF run.returns
                            THEN [hist.map EXCEPT
                                    ![key] = [found |-> TRUE, value |-> v]]
                            ELSE hist.map,
                    moved |-> IF run.returns /\ run.splits # <<>>
                              THEN {k \in HashKeys : hist.map[k].found}
                              ELSE hist.moved,
                    gone |-> IF run.returns THEN hist.gone \ {key}
                             ELSE hist.gone,
                    back |-> IF run.returns /\ key \in hist.gone
                             THEN hist.back \cup {key} ELSE hist.back,
                    last |-> [op |-> "add", key |-> key,
                              returns |-> run.returns, splits |-> run.splits,
                              before |-> hash_depths(hash),
                              len |-> Len(hash.directory)]]
  /\ ninserts' = ninserts + 1
  /\ UNCHANGED <<isam, avl, bpt, rtree, forced_index, table>>

\* eh.remove(key)
HashRemove(key) ==
  /\ hist.last.returns
  /\ ninserts < MaxHashCalls
  /\ hash' = Hash_remove(hash, key)
  /\ hist' = [map |-> [hist.map EXCEPT ![key] = [found |-> FALSE]],
              moved |-> hist.moved \ {key},
              gone |-> IF hist.map[key].found THEN hist.gone \cup {key}
                       ELSE hist.gone,
              back |-> hist.back \ {key},
              last |-> [op |-> "remove", key |-> key, returns |-> TRUE,
                        was |-> hist.map[key],
                        before |-> hash_depths(hash),
                        len |-> Len(hash.directory)]]
  /\ ninserts' = ninserts + 1
  /\ UNCHANGED <<isam, avl, bpt, rtree, forced_index, table>>

HashNext ==
  \/ \E key \in HashKeys, v \in HashValues : HashAdd(key, v)
  \/ \E key \in HashKeys : HashRemove(key)

HashSpec == HashInit /\ [][HashNext]_vars

\* the splits of the last add that doubled the directory
DoublingSplits(splits) ==
  Len(SelectSeq(splits, LAMBDA s : s.local_depth = s.global_depth))

\* C21: the directory has 2^global_depth slots and global_depth >= 1; in
\* an add, a split of a bucket with local_depth = global_depth doubles the
\* directory, any other split leaves its length alone, and nothing else
\* in the add changes it; a remove leaves the directory length and every
\* depth as they were.
C21_DirectoryIsPowerOfDepth ==
  /\ hash.global_depth >= 1
  /\ Len(hash.directory) = Pow2(hash.global_depth)
  /\ hist.last.op = "add" =>
       /\ \A i \in 1..Len(hist.last.splits) :
            LET s == hist.last.splits[i]
            IN s.after = (IF s.local_depth = s.global_depth
                          THEN 2 * s.before ELSE s.before)
       /\ Len(hash.directory)
            = hist.last.len * Pow2(DoublingSplits(hist.last.splits))
  /\ hist.last.op = "remove" =>
       /\ Len(hash.directory) = hist.last.len
       /\ hash_depths(hash) = hist.last.before

\* an add that returned after a split of a bucket below the global depth,
\* in a directory that earlier splits doubled twice
C21_Witness ==
  /\ hist.last.op = "add"
  /\ hist.last.returns
  /\ \E i \in 1..Len(hist.last.splits) :
       hist.last.splits[i].local_depth < hist.last.splits[i].global_depth
  /\ Len(hash.directory) = 8

\* the value of the low d bits of directory index i
low_bits(i, d) == i % Pow2(d)

\* C22: in every state of an index that started new, two directory
\* indices that map to the same bucket have the same low local_depth bits,
\* local_depth being that bucket's.
C22_SlotsOfBucketShareLowBits ==
  \A i, j \in 0..(Len(hash.directory) - 1) :
    hash.directory[i + 1] = hash.directory[j + 1] =>
      LET ld == hash.buckets[hash.directory[i + 1]].local_depth
      IN low_bits(i, ld) = low_bits(j, ld)

\* C23: after any add and remove calls that returned, search(k) gives the
\* value of the last add of k when no remove of k followed it, and None
\* otherwise; so for the keys a split moved and for the keys added again
\* after a remove.
C23_SearchReturnsLastAdd ==
  hist.last.returns =>
    \A k \in HashKeys : Hash_search(hash, k) = hist.map[k]

\* an add that split a bucket, with a stored key that an earlier remove
\* had taken out and a later add brought back, found with its value
C23_Witness ==
  /\ hist.last.op = "add"
  /\ hist.last.returns
  /\ hist.last.splits # <<>>
  /\ \E k \in hist.moved \cap hist.back :
       /\ k # hist.last.key
       /\ Hash_search(hash, k).found
       /\ Hash_search(hash, k) = hist.map[k]

\* C24: every add returns, after finitely many splits and doublings,
\* whatever capacity of 1 or more the index was created with and whatever
\* distinct integer keys it holds.
C24_AddReturns ==
  hist.last.op = "add" => hist.last.returns

(***************************************************************************)
(* The AVL file used on its own, as test_avl.py drives it: a new AVLFile,  *)
(* then insert and remove.  Only avl, hist and ninserts move; hist.ids is  *)
(* the set of ids inserted and not removed since.                          *)
(***************************************************************************)
\* the records of the insert calls and the ids of the remove calls
AvlRecs == {r \in Range(SourceRows) : r.restaurant_id <= 5}
AvlIds == {r.restaurant_id : r \in AvlRecs}

\* how many insert and remove calls a run makes
MaxAvlCalls == 6

AvlInit ==
  /\ isam = EmptyISAM
  /\ hash = NoEngine
  /\ avl = EmptyAVL
  /\ bpt = NewBPT
  /\ rtree = NoEngine
  /\ forced_index = "None"
  /\ hist = [ids |-> {}, last |-> [op |-> "init"]]
  /\ ninserts = 0
  /\ table = NoTable

\* the id of the root node, NoneId for the empty tree
avl_root_id(t) == IF t.root_pos = NIL THEN NoneId ELSE t.nodes[t.root_pos + 1].id

\* avl.insert(rec)
AvlInsert(rec) ==
  /\ ninserts < MaxAvlCalls
  /\ avl' = AVL_insert(avl, rec)
  /\ hist' = [ids |-> hist.ids \cup {rec.restaurant_id},
              last |-> [op |-> "insert", id |-> rec.restaurant_id,
                        known |-> rec.restaurant_id \in hist.ids,
                        root_id |-> avl_root_id(avl)]]
  /\ ninserts' = ninserts + 1
  /\ UNCHANGED <<isam, hash, bpt, rtree, forced_index, table>>

\* avl.remove(rid)
AvlRemove(rid) ==
  /\ ninserts < MaxAvlCalls
  /\ avl' = AVL_remove(avl, rid)
  /\ hist' = [ids |-> hist.ids \ {rid},
              last |-> [op |-> "remove", id |-> rid,
                        known |-> rid \in hist.ids,
                        root_id |-> avl_root_id(avl)]]
  /\ ninserts' = ninserts + 1
  /\ UNCHANGED <<isam, hash, bpt, rtree, forced_index, table>>

AvlNext ==
  \/ \E rec \in AvlRecs : AvlInsert(rec)
  \/ \E rid \in AvlIds : AvlRemove(rid)

AvlSpec == AvlInit /\ [][AvlNext]_vars

\* the height of the subtree at pos counted on the tree itself, -1 for
\* the empty subtree
RECURSIVE true_height(_, _)
true_height(nodes, pos) ==
  IF pos = NIL THEN 0 - 1
  ELSE Max(true_height(nodes, nodes[pos + 1].left),
           true_height(nodes, nodes[pos + 1].right)) + 1

\* the positions of the nodes of the subtree at pos
RECURSIVE subtree_positions(_, _)
subtree_positions(nodes, pos) ==
  IF pos = NIL THEN {}
  ELSE {pos} \cup subtree_positions(nodes, nodes[pos + 1].left)
             \cup subtree_positions(nodes, nodes[pos + 1].right)

\* C25: after every insert and every remove, the true heights of the left
\* and right subtrees of every node of the tree differ by at most 1.
C25_AvlIsBalanced ==
  \A pos \in subtree_positions(avl.nodes, avl.root_pos) :
    Abs(true_height(avl.nodes, avl.nodes[pos + 1].left)
          - true_height(avl.nodes, avl.nodes[pos + 1].right)) <= 1

\* a remove of a stored id other than the root's after which the tree has
\* a new root: the removal unbalanced the root and a rotation repaired it
C25_Witness ==
  /\ hist.last.op = "remove"
  /\ hist.last.known
  /\ hist.last.id # hist.last.root_id
  /\ avl_root_id(avl) # hist.last.root_id
  /\ Cardinality(hist.ids) >= 3

\* C26: after any inserts and removes, the in-order traversal lists the
\* ids inserted and not removed since, each once, in ascending order.
C26_InorderIsLiveIdsAscending ==
  LET ids == AVL_inorder_ids(avl)
  IN /\ Range(ids) = hist.ids
     /\ \A i \in 1..Len(ids) - 1 : ids[i] < ids[i + 1]

\* a tree of at least three ids after the remove of the root's id, which
\* had two children and took the id of its successor
C26_Witness ==
  /\ hist.last.op = "remove"
  /\ hist.last.known
  /\ hist.last.id = hist.last.root_id
  /\ Cardinality(hist.ids) >= 3
  /\ Len(AVL_inorder_ids(avl)) = Cardinality(hist.ids)

\* ---------------------------------------------------------------------------
\* The B+Tree on its own: a fresh index, loaded row by row as the test script
\* does, then arbitrary insert and remove calls
\* ---------------------------------------------------------------------------

\* how many rows the loading loop inserts
MaxBptLoad == 13

\* how many insert and remove calls follow the load
MaxBptCalls == 4

\* the rows of the loading loop, in ascending order of id
BptRow(i) == [key |-> 2 * i, value |-> "a"]

BptKeys == {5, 6, 8, 27}
BptValues == {"a", "b"}
BptAllKeys == {BptRow(i).key : i \in 1..MaxBptLoad} \cup BptKeys

\* number of nodes on the path from pos to its leftmost leaf
RECURSIVE bpt_height(_, _)
bpt_height(nodes, pos) ==
  IF nodes[pos + 1].is_leaf THEN 1
  ELSE 1 + bpt_height(nodes, nodes[pos + 1].children[1])

\* insert, line 195: the recursion handed a new sibling of the root back
bpt_root_splits(t, key, value) ==
  bpt_insert_recursive(t.nodes, t.root_pos, key, value).new_child # NIL

BptInit ==
  /\ isam = EmptyISAM
  /\ hash = NoEngine
  /\ avl = EmptyAVL
  /\ bpt = NewBPT
  /\ rtree = NoEngine
  /\ forced_index = "None"
  /\ hist = [map |-> [k \in BptAllKeys |-> [found |-> FALSE]],
             loaded |-> 0,
             last |-> [op |-> "init"]]
  /\ ninserts = 0
  /\ table = NoTable

\* what an insert call leaves in the history
bpt_insert_hist(key, value, loaded) ==
  [map |-> [hist.map EXCEPT ![key] = [found |-> TRUE, value |-> value]],
   loaded |-> loaded,
   last |-> [op |-> "insert", key |-> key,
             known |-> hist.map[key].found,
             height |-> bpt_height(bpt.nodes, bpt.root_pos),
             root_split |-> bpt_root_splits(bpt, key, value)]]

\* one turn of the loading loop: bpt.insert(key, value) for the next row
BptLoadRow ==
  /\ ninserts = 0
  /\ hist.loaded < MaxBptLoad
  /\ bpt' = BPT_insert(bpt, BptRow(hist.loaded + 1).key,
                       BptRow(hist.loaded + 1).value)
  /\ hist' = bpt_insert_hist(BptRow(hist.loaded + 1).key,
                             BptRow(hist.loaded + 1).value, hist.loaded + 1)
  /\ UNCHANGED <<isam, hash, avl, rtree, forced_index, ninserts, table>>

\* bpt.insert(key, value)
BptInsert(key, value) ==
  /\ ninserts < MaxBptCalls
  /\ bpt' = BPT_insert(bpt, key, value)
  /\ hist' = bpt_insert_hist(key, value, hist.loaded)
  /\ ninserts' = ninserts + 1
  /\ UNCHANGED <<isam, hash, avl, rtree, forced_index, table>>

\* bpt.remove(key)
BptRemove(key) ==
  /\ ninserts < MaxBptCalls
  /\ bpt' = BPT_remove(bpt, key)
  /\ hist' = [map |-> [hist.map EXCEPT ![key] = [found |-> FALSE]],
              loaded |-> hist.loaded,
              last |-> [op |-> "remove", key |-> key,
                        known |-> hist.map[key].found,
                        height |-> bpt_height(bpt.nodes, bpt.root_pos),
                        root_split |-> FALSE]]
  /\ ninserts' = ninserts + 1
  /\ UNCHANGED <<isam, hash, avl, rtree, forced_index, table>>

BptNext ==
  \/ BptLoadRow
  \/ \E key \in BptKeys, value \in BptValues : BptInsert(key, value)
  \/ \E key \in BptKeys : BptRemove(key)

BptSpec == BptInit /\ [][BptNext]_vars

\* positions of the subtree rooted at pos
RECURSIVE bpt_positions(_, _)
bpt_positions(nodes, pos) ==
  IF nodes[pos + 1].is_leaf THEN {pos}
  ELSE {pos} \cup UNION {bpt_positions(nodes, nodes[pos + 1].children[i]) :
                           i \in 1..Len(nodes[pos + 1].children)}

\* every key stored in the subtree rooted at pos, separators included
bpt_subtree_keys(nodes, pos) ==
  UNION {Range(nodes[p + 1].keys) : p \in bpt_positions(nodes, pos)}

RECURSIVE bpt_leftmost_leaf(_, _)
bpt_leftmost_leaf(nodes, pos) ==
  IF nodes[pos + 1].is_leaf THEN pos
  ELSE bpt_leftmost_leaf(nodes, nodes[pos + 1].children[1])

\* the keys met when following next_leaf from leaf pos
RECURSIVE bpt_chain_keys(_, _)
bpt_chain_keys(nodes, pos) ==
  IF pos = NIL THEN <<>>
  ELSE nodes[pos + 1].keys \o bpt_chain_keys(nodes, nodes[pos + 1].next_leaf)

bpt_live_keys == {k \in BptAllKeys : hist.map[k].found}

bpt_empty_leaves(t) ==
  {p \in bpt_positions(t.nodes, t.root_pos) :
     t.nodes[p + 1].is_leaf /\ t.nodes[p + 1].keys = <<>>}

\* C27: after any inserts and removes, every key stored under children[i] of
\* an internal node lies in [k_{i-1}, k_i) for that node's separator keys, and
\* following next_leaf from the leftmost leaf visits exactly the live keys in
\* strictly ascending order.
C27_SeparatorsBoundSubtreesAndChainAscends ==
  /\ \A p \in bpt_positions(bpt.nodes, bpt.root_pos) :
       LET node == bpt.nodes[p + 1]
       IN ~node.is_leaf =>
            /\ Len(node.children) = Len(node.keys) + 1
            /\ \A i \in 1..Len(node.children) :
                 \A k \in bpt_subtree_keys(bpt.nodes, node.children[i]) :
                   /\ (i > 1 => node.keys[i - 1] <= k)
                   /\ (i <= Len(node.keys) => k < node.keys[i])
  /\ LET chain == bpt_chain_keys(bpt.nodes,
                    bpt_leftmost_leaf(bpt.nodes, bpt.root_pos))
     IN /\ \A i \in 1..(Len(chain) - 1) : chain[i] < chain[i + 1]
        /\ Range(chain) = bpt_live_keys

\* a three-level tree in which a remove has just emptied a leaf
C27_Witness ==
  /\ hist.last.op = "remove"
  /\ hist.last.known
  /\ bpt_height(bpt.nodes, bpt.root_pos) = 3
  /\ bpt_empty_leaves(bpt) # {}
  /\ bpt_live_keys # {}

\* the lengths of the paths from pos, itself at depth d, to the leaves below it
RECURSIVE bpt_leaf_depths(_, _, _)
bpt_leaf_depths(nodes, pos, d) ==
  IF nodes[pos + 1].is_leaf THEN {d}
  ELSE UNION {bpt_leaf_depths(nodes, nodes[pos + 1].children[i], d + 1) :
                i \in 1..Len(nodes[pos + 1].children)}

\* C28: all root-to-leaf paths have the same length in every reachable state;
\* that length grows by exactly one exactly when an insert splits the root,
\* and no other insert and no remove changes it.
C28_PathsEqualAndHeightGrowsOnRootSplit ==
  /\ Cardinality(bpt_leaf_depths(bpt.nodes, bpt.root_pos, 1)) = 1
  /\ hist.last.op \in {"insert", "remove"} =>
       bpt_leaf_depths(bpt.nodes, bpt.root_pos, 1) =
         {hist.last.height +
            (IF hist.last.op = "insert" /\ hist.last.root_split THEN 1 ELSE 0)}

\* an insert has just split an internal root: the tree went from two levels
\* to three
C28_Witness ==
  /\ hist.last.op = "insert"
  /\ hist.last.root_split
  /\ hist.last.height = 2
  /\ bpt_leaf_depths(bpt.nodes, bpt.root_pos, 1) = {3}

\* the bounds the range searches are tried with
BptRangeKeys == {0, 4, 7, 12, 30}

\* the live (key, value) pairs with lo <= key <= hi, in ascending key order
RECURSIVE bpt_expected_range(_, _)
bpt_expected_range(lo, hi) ==
  IF lo > hi THEN <<>>
  ELSE (IF lo \in BptAllKeys /\ hist.map[lo].found
        THEN <<[k |-> lo, v |-> hist.map[lo].value]>> ELSE <<>>)
       \o bpt_expected_range(lo + 1, hi)

\* C29: range_search(lo, hi) returns exactly the live (key, value) pairs with
\* lo <= key <= hi, each once and in ascending key order, also after removes
\* have left leaves empty or under-occupied.
C29_RangeSearchIsExact ==
  \A lo \in BptRangeKeys, hi \in BptRangeKeys :
    BPT_range_search(bpt, lo, hi) = bpt_expected_range(lo, hi)

\* removes have emptied the leaf that held 6 and 8, and the search from 4 to
\* 12 walks across it and still returns pairs from both sides
C29_Witness ==
  /\ hist.last.op = "remove"
  /\ hist.last.known
  /\ bpt_empty_leaves(bpt) # {}
  /\ hist.map[4].found /\ hist.map[12].found
  /\ ~hist.map[6].found /\ ~hist.map[8].found
  /\ Len(BPT_range_search(bpt, 4, 12)) = 3

\* keys that no call ever inserts
BptAbsentKeys == {0, 3, 30}

\* C30: after any inserts and removes, search(k) returns the value most
\* recently inserted for k if k was not removed since and None otherwise; a
\* remove changes the result for no other key, and a removed key is found
\* again once it is re-inserted.
C30_SearchReturnsLastInsert ==
  /\ \A k \in BptAllKeys : BPT_search(bpt, k) = hist.map[k]
  /\ \A k \in BptAbsentKeys : BPT_search(bpt, k) = [found |-> FALSE]

\* key 6 came with the load, was removed, and has just been inserted again
\* with another value
C30_Witness ==
  /\ hist.loaded >= 3
  /\ hist.last.op = "insert"
  /\ hist.last.key = 6
  /\ ~hist.last.known
  /\ BPT_search(bpt, 6) = [found |-> TRUE, value |-> "b"]

\* ---------------------------------------------------------------------------
\* The R-Tree on its own: RTreePoints over fresh files (or in memory), then
\* add_point, remove_point_by_id and close calls
\* ---------------------------------------------------------------------------

\* how many add_point, remove_point_by_id and close calls a run makes
MaxRtCalls == 4

RtIndexNames == {"rtree_index", "None"}
RtPoints == {<<121020, 14550>>, <<121030, 14560>>, <<18019, 60000>>,
             <<0 - 179990, 14550>>}
RtIds == {1, 2}
RtNames == {<<1>>, <<2>>}
RtSearches == {[point |-> <<121020, 14550>>, radio_m |-> 3000],
               [point |-> <<0, 60000>>, radio_m |-> 1000000],
               [point |-> <<179990, 14550>>, radio_m |-> 3000]}

RtPayload(id, name) ==
  [Restaurant_ID |-> id, Restaurant_Name |-> name, City |-> CityX,
   Aggregate_rating |-> 4500]

\* RTreePoints.__init__ where no index files exist: index_name "None" is the
\* in-memory index; has_idx says that the attribute _idx refers to an open
\* native index; meta is the .meta sidecar
NewRTreeAt(index_name) ==
  [rows |-> {}, next_id |-> 0, idx |-> {}, index_name |-> index_name,
   has_idx |-> TRUE, meta |-> [written |-> FALSE, rows |-> {}]]

\* save: the sidecar takes the rows when the index is persistent
RTree_save(t) ==
  IF t.index_name # "None"
  THEN [t EXCEPT !.meta = [written |-> TRUE, rows |-> t.rows]]
  ELSE t

\* close: sidecar written, del self._idx, and a persistent index is opened
\* again under the same name
RTree_close(t) ==
  IF t.index_name # "None"
  THEN [RTree_save(t) EXCEPT !.has_idx = TRUE]
  ELSE [t EXCEPT !.has_idx = FALSE, !.idx = {}]

RtInit ==
  /\ isam = EmptyISAM
  /\ hash = NoEngine
  /\ avl = EmptyAVL
  /\ bpt = NewBPT
  /\ \E index_name \in RtIndexNames : rtree = NewRTreeAt(index_name)
  /\ forced_index = "None"
  /\ hist = [map |-> [id \in RtIds |-> [found |-> FALSE]],
             last |-> [op |-> "init"]]
  /\ ninserts = 0
  /\ table = NoTable

\* rt.add_point(x, y, payload); without _idx the call raises at the insert
\* into the native index, after the rows were changed and before save()
RtAdd(point, id, name) ==
  /\ ninserts < MaxRtCalls
  /\ rtree' = IF rtree.has_idx
              THEN RTree_save(RTree_add_point(rtree, point[1], point[2],
                                              RtPayload(id, name)))
              ELSE [RTree_add_point(rtree, point[1], point[2],
                                    RtPayload(id, name)) EXCEPT !.idx = {}]
  /\ hist' = [map |-> [hist.map EXCEPT ![id] =
                         [found |-> TRUE, coords |-> point,
                          payload |-> RtPayload(id, name)]],
              last |-> [op |-> "add", id |-> id, known |-> hist.map[id].found,
                        before |-> rtree, prev |-> hist.last.op]]
  /\ ninserts' = ninserts + 1
  /\ UNCHANGED <<isam, hash, avl, bpt, forced_index, table>>

\* rt.remove_point_by_id(restaurant_id): returns before save() when nothing
\* matches
RtRemove(id) ==
  /\ ninserts < MaxRtCalls
  /\ rtree' = IF \E r \in rtree.rows : r.payload.Restaurant_ID = id
              THEN RTree_save(RTree_remove_point_by_id(rtree, id))
              ELSE rtree
  /\ hist' = [map |-> [hist.map EXCEPT ![id] = [found |-> FALSE]],
              last |-> [op |-> "remove", id |-> id, known |-> hist.map[id].found,
                        before |-> rtree, prev |-> hist.last.op]]
  /\ ninserts' = ninserts + 1
  /\ UNCHANGED <<isam, hash, avl, bpt, forced_index, table>>

\* rt.close()
RtClose ==
  /\ ninserts < MaxRtCalls
  /\ rtree' = RTree_close(rtree)
  /\ hist' = [map |-> hist.map,
              last |-> [op |-> "close", id |-> NoneId, known |-> FALSE,
                        before |-> rtree, prev |-> hist.last.op]]
  /\ ninserts' = ninserts + 1
  /\ UNCHANGED <<isam, hash, avl, bpt, forced_index, table>>

RtNext ==
  \/ \E point \in RtPoints, id \in RtIds, name \in RtNames : RtAdd(point, id, name)
  \/ \E id \in RtIds : RtRemove(id)
  \/ RtClose

RtSpec == RtInit /\ [][RtNext]_vars

\* the rows a history map stands for, without their surrogate ids
rt_expected ==
  {[coords |-> hist.map[id].coords, payload |-> hist.map[id].payload] :
     id \in {i \in RtIds : hist.map[i].found}}

\* sorted(out, key=dist_km) of range_search_km; rows at the same distance are
\* taken in the order of their surrogate ids
RECURSIVE sorted_by_dist(_)
sorted_by_dist(S) ==
  IF S = {} THEN <<>>
  ELSE With(CHOOSE x \in S :
              \A y \in S : \/ x.dist_km < y.dist_km
                           \/ (x.dist_km = y.dist_km /\ x.id <= y.id),
            LAMBDA r : <<r>> \o sorted_by_dist(S \ {r}))

\* C31: after any add_point and remove_point_by_id calls the R-Tree holds at
\* most one entry per Restaurant_ID, with the coordinates and payload of the
\* most recent add_point for that id, and no entry for an id removed since;
\* the native index holds exactly the points of these entries.
C31_OneEntryPerIdLatestWins ==
  /\ \A r1 \in rtree.rows, r2 \in rtree.rows :
       r1.payload.Restaurant_ID = r2.payload.Restaurant_ID => r1 = r2
  /\ {[coords |-> r.coords, payload |-> r.payload] : r \in rtree.rows}
       = rt_expected
  /\ rtree.has_idx =>
       rtree.idx = {[pid |-> r.pid, coords |-> r.coords] : r \in rtree.rows}

\* an add_point has just replaced the entry of an id at other coordinates,
\* with the other id removed before
C31_Witness ==
  /\ hist.last.op = "add"
  /\ hist.last.known
  /\ rtree.has_idx
  /\ \E r \in hist.last.before.rows :
       /\ r.payload.Restaurant_ID = hist.last.id
       /\ r.coords # hist.map[hist.last.id].coords
  /\ rtree.next_id >= 3
  /\ Cardinality(rtree.rows) = 1

\* the surrogate ids of the stored entries within radio_m of point
rt_within(point, radio_m) ==
  {r.pid : r \in {x \in rtree.rows : haversine_m(point, x.coords) <= radio_m}}

\* C32: range_search_km(point, r) returns every stored entry whose haversine
\* distance from point is at most r and none farther, in ascending order of
\* distance; the bounding-box prefilter excludes no entry that lies within r.
C32_RangeSearchKmIsExactAndSorted ==
  rtree.has_idx =>
    \A q \in RtSearches :
      LET res == sorted_by_dist(RTree_range_search_km(rtree, q.point, q.radio_m))
      IN /\ {res[i].id : i \in 1..Len(res)} = rt_within(q.point, q.radio_m)
         /\ \A i \in 1..(Len(res) - 1) : res[i].dist_km <= res[i + 1].dist_km

\* C37: close() persists the metadata and releases the native index handle,
\* so that after close() the engine holds no open handle on the index files;
\* a second close() has no further effect.
C37_CloseReleasesHandleAndIsIdempotent ==
  hist.last.op = "close" =>
    /\ rtree.index_name # "None" =>
         rtree.meta = [written |-> TRUE, rows |-> rtree.rows]
    /\ ~rtree.has_idx
    /\ hist.last.prev = "close" => rtree = hist.last.before

\* ---------------------------------------------------------------------------
\* The static index of the ISAM under insert and delete
\* ---------------------------------------------------------------------------

\* index b has the nodes, root and child pointers of index a, and differs
\* from it at most in leaf keys whose base page changed its first key
index_same_shape(a, b) ==
  /\ b.index.root_off = a.index.root_off
  /\ Len(b.index.nodes) = Len(a.index.nodes)
  /\ \A n \in 1..Len(a.index.nodes) :
       /\ b.index.nodes[n].is_leaf = a.index.nodes[n].is_leaf
       /\ b.index.nodes[n].p0 = a.index.nodes[n].p0
       /\ b.index.nodes[n].ptrs = a.index.nodes[n].ptrs
       /\ Len(b.index.nodes[n].keys) = Len(a.index.nodes[n].keys)
       /\ \A i \in 1..Len(a.index.nodes[n].keys) :
            b.index.nodes[n].keys[i] # a.index.nodes[n].keys[i] =>
              /\ a.index.nodes[n].is_leaf
              /\ Page_first_key(read_page_at(a.data, a.index.nodes[n].ptrs[i]))
                   # Page_first_key(read_page_at(b.data, a.index.nodes[n].ptrs[i]))

\* C34: ISAM insert and delete never restructure the multilevel index: the
\* set of index nodes, the root and every node's child pointers are the same
\* before and after the call; at most the leaf key of a base page whose first
\* key changed is rewritten.
C34_IndexIsStatic ==
  [][(hist'.last.op \in {"insert", "delete"} /\ ISAM_has_index(isam))
       => index_same_shape(isam, isam')]_vars

\* ---------------------------------------------------------------------------
\* The ISAM with one base page and a growing overflow chain: a build of one
\* full page, then inserts of further records in key order and deletes
\* ---------------------------------------------------------------------------

\* the id of the last record the runs insert
MaxChainRows == 19

\* how many delete calls a run makes
MaxChainDeletes == 2

ChainRow(i) == Rec(i, <<1>>, CityX, 4000, 10, 100, 121020, 14550)

ChainInit ==
  /\ isam = EmptyISAM
  /\ hash = NoEngine
  /\ avl = NoEngine
  /\ bpt = NewBPT
  /\ rtree = NoEngine
  /\ forced_index = "None"
  /\ hist = [next |-> 1, deletes |-> 0, last |-> [op |-> "init"]]
  /\ ninserts = 0
  /\ table = NoTable

\* isam.build(records) with as many records as one page takes
ChainBuild ==
  /\ hist.next = 1
  /\ isam' = ISAM_build([i \in 1..BLOCK_FACTOR |-> ChainRow(i)])
  /\ hist' = [next |-> BLOCK_FACTOR + 1, deletes |-> 0,
              last |-> [op |-> "build"]]
  /\ UNCHANGED <<hash, avl, bpt, rtree, forced_index, ninserts, table>>

\* isam.insert(rec) for the next record
ChainInsert ==
  /\ hist.next > 1
  /\ hist.next <= MaxChainRows
  /\ isam' = ISAM_insert(isam, ChainRow(hist.next))
  /\ hist' = [next |-> hist.next + 1, deletes |-> hist.deletes,
              last |-> [op |-> "insert", rec |-> ChainRow(hist.next)]]
  /\ ninserts' = ninserts + 1
  /\ UNCHANGED <<hash, avl, bpt, rtree, forced_index, table>>

\* isam.delete(name, city, restaurant_id)
ChainDelete(id) ==
  /\ hist.next > 1
  /\ hist.deletes < MaxChainDeletes
  /\ isam' = ISAM_delete(isam, ChainRow(id).name, ChainRow(id).city, id).isam
  /\ hist' = [next |-> hist.next, deletes |-> hist.deletes + 1,
              last |-> [op |-> "delete", id |-> id]]
  /\ UNCHANGED <<hash, avl, bpt, rtree, forced_index, ninserts, table>>

ChainNext ==
  \/ ChainBuild
  \/ ChainInsert
  \/ \E id \in 1..MaxChainRows : ChainDelete(id)

IsamChainSpec == ChainInit /\ [][ChainNext]_vars

\* what C33 asks of an insert of rec that takes im to im2 when the base page
\* of rec is full: rec goes into the first overflow page of the chain with
\* room and no page is added, or, when the chain has no page with room, one
\* new page holding rec is linked to the tail
overflow_insert_ok(im, im2, rec) ==
  LET base_off == find_page_offset(im.index, Record_key(rec))
      chain == chain_offsets(im.data, base_off)
      ovf == Drop(chain, 1)
      roomy == {i \in 1..Len(ovf) :
                  Len(read_page_at(im.data, ovf[i]).records) < BLOCK_FACTOR}
  IN Len(read_page_at(im.data, base_off).records) = BLOCK_FACTOR =>
       IF roomy # {}
       THEN LET off == ovf[SetMin(roomy)]
            IN /\ Len(im2.data) = Len(im.data)
               /\ chain_offsets(im2.data, base_off) = chain
               /\ Range(read_page_at(im2.data, off).records)
                    = Range(read_page_at(im.data, off).records) \cup {rec}
               /\ \A o \in 0..(Len(im.data) - 1) :
                    o # off => read_page_at(im2.data, o).records
                                 = read_page_at(im.data, o).records
       ELSE /\ Len(im2.data) = Len(im.data) + 1
            /\ chain_offsets(im2.data, base_off) = Append(chain, Len(im.data))
            /\ read_page_at(im2.data, Len(im.data)).records = <<rec>>
            /\ \A o \in 0..(Len(im.data) - 1) :
                 read_page_at(im2.data, o).records
                   = read_page_at(im.data, o).records

\* C33: an insert that targets a full base page puts the record into the
\* first page of that base page's overflow chain that has free capacity, and
\* allocates a new overflow page linked to the chain's tail, growing the chain
\* by exactly one page, only when every page of the chain is full.
C33_OverflowInsertFillsFirstFreePage ==
  [][(hist'.last.op = "insert" /\ ISAM_has_index(isam))
       => overflow_insert_ok(isam, isam', hist'.last.rec)]_vars

\* ---------------------------------------------------------------------------
\* The uniqueness probe of insert_full against search_by_id
\* ---------------------------------------------------------------------------

\* how many build_from_csv calls a run of the probe specification makes
MaxProbeBuilds == 2

\* the using_indexes lists of those builds: the lists of UsingLists and
\* the lists that build one id-keyed engine alone
ProbeUsing == UsingLists \cup {{"HASH"}, {"AVL"}, {"BTREE"}}

ProbeInit ==
  /\ isam = EmptyISAM
  /\ hash = NoEngine
  /\ avl = NoEngine
  /\ bpt = NewBPT
  /\ rtree = NoEngine
  /\ forced_index = "None"
  /\ hist = [builds |-> 0, last |-> [op |-> "init"]]
  /\ ninserts = 0
  /\ table = NoTable

\* build_from_csv(csv, 8, using_indexes)
ProbeBuild(using_indexes) ==
  /\ hist.builds < MaxProbeBuilds
  /\ SetMgr(build_using(Mgr, SourceRows, 8, using_indexes))
  /\ hist' = [builds |-> hist.builds + 1,
              last |-> [op |-> "build", using |-> using_indexes]]
  /\ UNCHANGED <<forced_index, ninserts, table>>

\* insert_full(d)
ProbeInsertFull(d) ==
  /\ ninserts < MaxInserts
  /\ With(insert_full(Mgr, d), LAMBDA r :
       /\ SetMgr(r.m)
       /\ hist' = [hist EXCEPT !.last =
                     [op |-> "insert_full", id |-> to_int(d.restaurant_id),
                      ok |-> r.ok,
                      known |-> id_exists(Mgr, to_int(d.restaurant_id))]])
  /\ ninserts' = ninserts + 1
  /\ UNCHANGED <<forced_index, table>>

\* delete(name, city, restaurant_id)
ProbeDelete(rec) ==
  /\ hist.last.op # "delete"
  /\ With(delete(Mgr, rec.name, rec.city, rec.restaurant_id), LAMBDA r :
       SetMgr(r.m))
  /\ hist' = [hist EXCEPT !.last = [op |-> "delete", id |-> rec.restaurant_id]]
  /\ UNCHANGED <<forced_index, ninserts, table>>

ProbeNext ==
  \/ \E using_indexes \in ProbeUsing : ProbeBuild(using_indexes)
  \/ \E d \in InsertRows : ProbeInsertFull(d)
  \/ \E rec \in DeleteRecs : ProbeDelete(rec)

ProbeSpec == ProbeInit /\ [][ProbeNext]_vars

\* C35: in every reachable state of the manager, also where the id-keyed
\* engines disagree after an insert that failed half way, the probe of
\* insert_full (B+Tree, ExtHash, AVL) reports an id as present exactly when
\* search_by_id (AVL, B+Tree, ExtHash) returns a non-empty result for it.
C35_ProbeAgreesWithSearchById ==
  \A id \in QueryIds : id_exists(Mgr, id) <=> (search_by_id(Mgr, id) # <<>>)

\* an insert failed after the hash took the record: the hash knows the id,
\* the B+Tree does not, and both the probe and search_by_id find it
C35_Witness ==
  /\ hist.last.op = "insert_full"
  /\ ~hist.last.ok
  /\ ~IsNone(hash)
  /\ Hash_search(hash, hist.last.id).found
  /\ ~BPT_search(bpt, hist.last.id).found
  /\ id_exists(Mgr, hist.last.id)
  /\ search_by_id(Mgr, hist.last.id) # <<>>

(***************************************************************************)
(* The AVL file with several payloads for one id: insert of records that   *)
(* share their id and differ in the other fields, and remove.  hist.map    *)
(* keeps, for every id, the payload of its first insert since it was last  *)
(* removed.                                                                *)
(***************************************************************************)
\* how many insert and remove calls a run makes
MaxAvlPayloadCalls == 5

AvlPayloadIds == {1, 2, 3, 4}

\* two records for every id: the source row and one with another name,
\* rating and votes
AvlPayloadRecs ==
  UNION {{r, [r EXCEPT !.name = <<9>>, !.aggregate_rating = 4400,
                       !.votes = r.votes + 1]} :
         r \in {x \in Range(SourceRows) : x.restaurant_id \in AvlPayloadIds}}

AvlPayloadInit ==
  /\ isam = EmptyISAM
  /\ hash = NoEngine
  /\ avl = EmptyAVL
  /\ bpt = NewBPT
  /\ rtree = NoEngine
  /\ forced_index = "None"
  /\ hist = [map |-> [id \in AvlPayloadIds |-> [found |-> FALSE]],
             last |-> [op |-> "init"]]
  /\ ninserts = 0
  /\ table = NoTable

\* avl.insert(rec)
AvlPayloadInsert(rec) ==
  /\ ninserts < MaxAvlPayloadCalls
  /\ avl' = AVL_insert(avl, rec)
  /\ hist' = [map |-> IF hist.map[rec.restaurant_id].found THEN hist.map
                      ELSE [hist.map EXCEPT ![rec.restaurant_id] =
                              [found |-> TRUE, rec |-> avl_payload(rec)]],
              last |-> [op |-> "insert", id |-> rec.restaurant_id,
                        known |-> hist.map[rec.restaurant_id].found,
                        payload |-> avl_payload(rec),
                        nodes |-> avl.nodes, root_pos |-> avl.root_pos]]
  /\ ninserts' = ninserts + 1
  /\ UNCHANGED <<isam, hash, bpt, rtree, forced_index, table>>

\* avl.remove(rid)
AvlPayloadRemove(rid) ==
  /\ ninserts < MaxAvlPayloadCalls
  /\ avl' = AVL_remove(avl, rid)
  /\ hist' = [map |-> [hist.map EXCEPT ![rid] = [found |-> FALSE]],
              last |-> [op |-> "remove", id |-> rid,
                        known |-> hist.map[rid].found]]
  /\ ninserts' = ninserts + 1
  /\ UNCHANGED <<isam, hash, bpt, rtree, forced_index, table>>

AvlPayloadNext ==
  \/ \E rec \in AvlPayloadRecs : AvlPayloadInsert(rec)
  \/ \E rid \in AvlPayloadIds : AvlPayloadRemove(rid)

AvlPayloadSpec == AvlPayloadInit /\ [][AvlPayloadNext]_vars

\* C36: search(id) returns the payload stored by the first insert of the
\* id since it was last removed and None for an id never inserted or
\* since removed; an insert of an id already in the tree leaves the node
\* file and the root as they were.
C36_SearchReturnsFirstInsert ==
  /\ \A id \in AvlPayloadIds : AVL_search(avl, id) = hist.map[id]
  /\ (hist.last.op = "insert" /\ hist.last.known)
       => (avl.nodes = hist.last.nodes /\ avl.root_pos = hist.last.root_pos)

\* a second insert of an id with another payload has just run, after an
\* earlier remove or second insert, and search still gives the first
\* payload
C36_Witness ==
  /\ hist.last.op = "insert"
  /\ hist.last.known
  /\ hist.last.payload # hist.map[hist.last.id].rec
  /\ AVL_search(avl, hist.last.id).rec = hist.map[hist.last.id].rec
  /\ Len(avl.heap) > Cardinality({id \in AvlPayloadIds : hist.map[id].found}) + 1

(***************************************************************************)
(* Simple comparisons of the planner, no index forced.                     *)
(***************************************************************************)
CmpOps == {"=", ">", "<", ">=", "<="}

NumericConds ==
  {ConditionNode("rating", o, v) : o \in CmpOps, v \in {Num(4000), Num(4800)}}
  \cup {ConditionNode("votes", o, Num(30000)) : o \in CmpOps}

IdConds ==
  {ConditionNode("restaurant_id", o, v) : o \in CmpOps, v \in {Num(1000), Num(5000)}}

TextConds ==
  {ConditionNode("name", o, Txt(SourceRows[2].name)) : o \in CmpOps}
  \cup {ConditionNode("city", o, Txt(CityX)) : o \in CmpOps}

\* the value a result row shows for the attribute
RowValue(r, attr) ==
  CASE attr = "restaurant_id" -> RowId(r)
    [] attr = "rating" -> r.row.aggregate_rating
    [] attr = "votes" -> r.row.votes
    [] attr = "name" -> IF r.kind = "rec" THEN r.row.name ELSE r.row.restaurant_name
    [] attr = "city" -> r.row.city

\* text a against text b: "=" is equality up to normalize_text, a strict
\* comparison is refuted by equal texts, ">=" and "<=" are left open
text_cmp_ok(a, op, b) ==
  CASE op = "=" -> normalize_text(a) = normalize_text(b)
    [] op \in {">", "<"} -> normalize_text(a) # normalize_text(b)
    [] OTHER -> TRUE

RowSatisfies(r, cond) ==
  IF cond.attribute \in {"name", "city"}
  THEN text_cmp_ok(RowValue(r, cond.attribute), cond.operator, cond.value.t)
  ELSE cmp_ok(RowValue(r, cond.attribute), cond.operator,
              IF cond.attribute = "restaurant_id" THEN py_int(cond.value)
              ELSE py_float(cond.attribute, cond.value))

\* every row the planner returns for cond satisfies it (the int of the
\* pair (off, rec) is no row)
RowsSatisfy(m, cond) ==
  LET res == evaluate_condition(m, "None", cond)
  IN \A i \in 1..Len(res.val.rows) :
       res.val.rows[i].kind # "int" => RowSatisfies(res.val.rows[i], cond)

\* C38: for every simple comparison attr <op> v evaluated by the planner
\* without a hint, every returned row satisfies attr <op> v, for
\* restaurant_id and for name and city as for the numeric attributes.
C38_ReturnedRowsSatisfyComparison ==
  \A cond \in NumericConds \cup IdConds \cup TextConds : RowsSatisfy(Mgr, cond)

(***************************************************************************)
(* Statements of the query engine one after another on one manager:        *)
(* CREATE TABLE ... FROM FILE, SELECT ... [USING index] and EXPLAIN        *)
(* [ANALYZE] SELECT ... [USING index].  forced_index is the attribute of   *)
(* that name of the IndexManager, "None" for None.  hist.last keeps the    *)
(* statement, the index its predicate was evaluated under (used) and the   *)
(* result of the evaluation.                                               *)
(***************************************************************************)
\* the WHERE clauses of the statements
PlanConds ==
  { ConditionNode("rating", ">", Num(4000)),
    ConditionNode("restaurant_id", "=", Num(1000)),
    ConditionNode("name", "=", Txt(SourceRows[2].name)),
    ConditionComplexNode(ConditionNode("rating", ">", Num(4000)), "AND",
                         ConditionNode("votes", "<=", Num(30000))) }

PlanInit ==
  /\ isam = EmptyISAM
  /\ hash = NoEngine
  /\ avl = NoEngine
  /\ bpt = NewBPT
  /\ rtree = NoEngine
  /\ forced_index = "None"
  /\ hist = [built |-> FALSE, last |-> [op |-> "init"]]
  /\ ninserts = 0
  /\ table = NoTable

\* _execute(CreateFromFileNode): every engine is rebuilt from the file
PlanCreate(limit) ==
  /\ ~hist.built
  /\ SetMgr(build_from_csv(SourceRows, limit))
  /\ hist' = [built |-> TRUE, last |-> [op |-> "create"]]
  /\ UNCHANGED <<forced_index, ninserts, table>>

\* _execute(SelectWhereNode): the manager's forced_index becomes the
\* statement's using_index, None when it has none, and the predicate is
\* evaluated under it
PlanSelect(cond, using_index) ==
  /\ hist.built
  /\ forced_index' = using_index
  /\ hist' = [hist EXCEPT !.last =
                [op |-> "select", cond |-> cond, using_index |-> using_index,
                 used |-> using_index,
                 res |-> evaluate_condition(Mgr, using_index, cond)]]
  /\ UNCHANGED <<isam, hash, avl, bpt, rtree, ninserts, table>>

\* _execute(ExplainNode) -> _execute_explain(select_stmt, analyze): the
\* plan names the statement's using_index; with ANALYZE the predicate is
\* evaluated by _evaluate_condition, which reads the manager's
\* forced_index as the statement before left it
PlanExplain(cond, using_index, analyze) ==
  /\ hist.built
  /\ hist' = [hist EXCEPT !.last =
                [op |-> IF analyze THEN "explain analyze" ELSE "explain",
                 cond |-> cond, using_index |-> using_index,
                 used |-> IF analyze THEN forced_index ELSE "None",
                 res |-> IF analyze
                         THEN evaluate_condition(Mgr, forced_index, cond)
                         ELSE Returned(PyList(<<>>))]]
  /\ UNCHANGED <<isam, hash, avl, bpt, rtree, forced_index, ninserts, table>>

PlanNext ==
  \/ \E limit \in BuildLimits : PlanCreate(limit)
  \/ \E cond \in PlanConds, u \in UsingHints : PlanSelect(cond, u)
  \/ \E cond \in PlanConds, u \in UsingHints, analyze \in BOOLEAN :
       PlanExplain(cond, u, analyze)

PlanSpec == PlanInit /\ [][PlanNext]_vars

\* the index a statement is evaluated under when it is the first
\* statement after the table is created: its own hint for a SELECT, none
\* for an EXPLAIN (the manager's forced_index is still None)
used_when_first(last) ==
  IF last.op = "select" THEN last.using_index ELSE "None"

\* C39: a USING hint affects only the statement that carries it: the index
\* a later statement -- EXPLAIN ANALYZE and statements without a hint
\* included -- is evaluated under, and so its result, is the one it has
\* when it runs first, whatever hints the statements before it gave.
C39_HintAffectsOnlyItsStatement ==
  hist.last.op \in {"select", "explain analyze"} =>
    /\ hist.last.used = used_when_first(hist.last)
    /\ hist.last.res = evaluate_condition(Mgr, used_when_first(hist.last),
                                          hist.last.cond)

(***************************************************************************)
(* The StorageManager table file (storage/storage_manager.py): a header    *)
(* (count, free_head, rec_size) of HEADER_SIZE bytes and then slots of     *)
(* rec_size bytes, slot k at byte HEADER_SIZE + (k - 1) * rec_size.  A     *)
(* slot is one flag byte, 0 for a live record and 1 for a deleted one, and *)
(* the body; delete_records writes the old free_head as a little-endian    *)
(* int64 over the first eight bytes of the body.  A slot is [flag, next,   *)
(* row]: next is that int64 for a deleted slot and 0 for a live one, whose *)
(* body is its row.  The table is the one of test_storage_real.py: id INT, *)
(* nombre VARCHAR[20], ubicacion ARRAY[FLOAT], rows told apart by id.      *)
(***************************************************************************)
HEADER_SIZE == 16

\* 1 + max(calcsize("<i20sff"), FREE_PTR_SIZE)
rec_size == 33

\* create_table: count 0, free_head -1, no slot
create_table == [count |-> 0, free_head |-> NIL, slots |-> <<>>]

slot_offset(k) == HEADER_SIZE + (k - 1) * rec_size

\* the slot that starts at byte off, 0 when none does
slot_at(tb, off) ==
  IF off >= HEADER_SIZE /\ (off - HEADER_SIZE) % rec_size = 0
     /\ (off - HEADER_SIZE) \div rec_size < Len(tb.slots)
  THEN (off - HEADER_SIZE) \div rec_size + 1
  ELSE 0

\* struct.unpack("<q", f.read(8)) with the file at the start of a slot:
\* the flag byte and the low seven bytes of the int64 that follows it,
\* which is flag + 256 * next for every next of less than 2^55 in size
read_next_free(slot) == slot.flag + 256 * slot.next

\* insert_record.  With a free_head other than -1 the file is read at
\* free_head: a negative offset raises OSError in seek and one at or past
\* the end of the file struct.error in unpack, both before anything is
\* written.  (An offset inside the file is the start of a slot in every
\* state of the runs below.)
insert_record(tb, values) ==
  IF tb.free_head = NIL
  THEN [tb |-> [tb EXCEPT !.slots = Append(@, [flag |-> 0, next |-> 0,
                                              row |-> values]),
                          !.count = @ + 1],
        raised |-> FALSE, how |-> "append"]
  ELSE IF slot_at(tb, tb.free_head) = 0
  THEN [tb |-> tb, raised |-> TRUE, how |-> "none"]
  ELSE [tb |-> [tb EXCEPT !.slots[slot_at(tb, tb.free_head)] =
                            [flag |-> 0, next |-> 0, row |-> values],
                          !.free_head =
                            read_next_free(tb.slots[slot_at(tb, tb.free_head)]),
                          !.count = @ + 1],
        raised |-> FALSE, how |-> "reuse"]

\* the slots of delete_records from slot k on: a live slot whose row
\* matches is flagged, takes the free_head so far as its next and becomes
\* the free_head
RECURSIVE delete_from(_, _, _, _)
delete_from(tb, k, id, deleted) ==
  IF k > Len(tb.slots) THEN [tb |-> tb, deleted |-> deleted]
  ELSE IF tb.slots[k].flag = 0 /\ tb.slots[k].row.id = id
  THEN delete_from([tb EXCEPT !.slots[k].flag = 1,
                              !.slots[k].next = tb.free_head,
                              !.free_head = slot_offset(k)],
                   k + 1, id, deleted + 1)
  ELSE delete_from(tb, k + 1, id, deleted)

\* delete_records with the condition id = value; the header is written
\* when a slot was deleted
delete_records(tb, id) ==
  With(delete_from(tb, 1, id, 0), LAMBDA r :
    IF r.deleted = 0 THEN [tb |-> tb, deleted |-> 0]
    ELSE [tb |-> [r.tb EXCEPT !.count = Max(0, tb.count - r.deleted)],
          deleted |-> r.deleted])

\* how many insert_record and delete_records calls a run makes
MaxStorageCalls == 6

StorageIds == {1, 2, 3}

StorageRow(id) == [id |-> id, nombre |-> <<1>>]

StorageInit ==
  /\ isam = EmptyISAM
  /\ hash = NoEngine
  /\ avl = NoEngine
  /\ bpt = NewBPT
  /\ rtree = NoEngine
  /\ forced_index = "None"
  /\ hist = [last |-> [op |-> "create"]]
  /\ ninserts = 0
  /\ table = create_table

\* insert_record(table, values)
StorageInsert(id) ==
  /\ ninserts < MaxStorageCalls
  /\ With(insert_record(table, StorageRow(id)), LAMBDA r :
       /\ table' = r.tb
       /\ hist' = [last |-> [op |-> "insert", id |-> id, raised |-> r.raised,
                             how |-> r.how, head |-> table.free_head]])
  /\ ninserts' = ninserts + 1
  /\ UNCHANGED <<isam, hash, avl, bpt, rtree, forced_index>>

\* delete_records(table, id = value)
StorageDelete(id) ==
  /\ ninserts < MaxStorageCalls
  /\ With(delete_records(table, id), LAMBDA r :
       /\ table' = r.tb
       /\ hist' = [last |-> [op |-> "delete", id |-> id, deleted |-> r.deleted,
                             head |-> table.free_head]])
  /\ ninserts' = ninserts + 1
  /\ UNCHANGED <<isam, hash, avl, bpt, rtree, forced_index>>

StorageNext ==
  \/ \E id \in StorageIds : StorageInsert(id)
  \/ \E id \in StorageIds : StorageDelete(id)

StorageSpec == StorageInit /\ [][StorageNext]_vars

\* the walk along the stored next pointers from off, at most n steps:
\* TRUE when it passes deleted slots only and ends at -1
RECURSIVE free_walk_ok(_, _, _)
free_walk_ok(tb, off, n) ==
  IF off = NIL THEN TRUE
  ELSE IF n = 0 \/ slot_at(tb, off) = 0 THEN FALSE
  ELSE /\ tb.slots[slot_at(tb, off)].flag = 1
       /\ free_walk_ok(tb, tb.slots[slot_at(tb, off)].next, n - 1)

\* C40: after any sequence of insert_record and delete_records the
\* header's free-list head is -1 or the offset of a slot flagged deleted,
\* the stored next pointers from it lead through deleted slots only and
\* end at -1, and every insert_record completes, by reusing the head slot
\* or by appending at the end of the file.
C40_FreeListIsWellFormed ==
  /\ table.free_head = NIL
     \/ (slot_at(table, table.free_head) # 0
         /\ table.slots[slot_at(table, table.free_head)].flag = 1)
  /\ free_walk_ok(table, table.free_head, Len(table.slots))
  /\ hist.last.op = "insert" =>
       /\ ~hist.last.raised
       /\ IF hist.last.head = NIL THEN hist.last.how = "append"
          ELSE hist.last.how = "reuse"

====
